---- MODULE Spec2Model ----
(***************************************************************************)
(* UF Student Marketplace: the backend, with authentication (Register,     *)
(* Login, ChangePassword), the listing catalogue (handlers/listing.go), the *)
(* chat thread manager (handlers/chat.go) and the notification ledger       *)
(* (handlers/notification.go) over the shared store (database.DB), and the  *)
(* two browser services that cache its answers (ChatService with the chat   *)
(* widget, NotificationService).                                            *)
(*                                                                         *)
(* Every HTTP request is a process r \in Reqs.  A handler is a sequence of *)
(* store statements; each statement is one atomic step, and the steps of   *)
(* different requests interleave freely under Spec (all routes), SpecChat   *)
(* (the chat routes), SpecContact (POST /chats, three requests), SpecOrder  *)
(* (POST /chats while time passes, then GET /chats) and SpecListing (GET    *)
(* and PUT /listings/:id).  The specifications whose name ends in Seq are   *)
(* the same program when requests are served one after the other:          *)
(* SpecChatSeq (chat routes), SpecPostSeq (CreateChat and SendMessage),     *)
(* SpecLedgerSeq (the two posting routes with the notification routes),     *)
(* SpecBrowseSeq (listings without images, fetched and listed),             *)
(* SpecPagingSeq (listings listed with any page and limit), SpecStatusSeq   *)
(* (listings given a status), SpecImagesSeq (listings with their images),   *)
(* SpecAuthSeq (Register and Login) and SpecPasswordSeq (ChangePassword and *)
(* Login).  SpecWidget is the chat widget of one user with its requests in  *)
(* flight, SpecBadge the notification dropdown of one user.                 *)
(***************************************************************************)
EXTENDS Integers, Sequences, FiniteSets, TLC

\* ---- bounds of the model ------------------------------------------------
MaxRows     == 2      \* message rows and notification rows, requests served in turn
MaxRaceRows == 2      \* message rows and notification rows, requests served concurrently
MaxClock    == 2      \* readings of time.Now()
MaxListings == 2      \* listing rows
MaxImages   == 3      \* image rows
MaxViews    == 2      \* views counted, over all listings
MaxUsers    == 4      \* user rows
MaxContacts == 3      \* message rows and notification rows, first contacts racing
MaxOrderClock == 3    \* readings of time.Now() where the order of the chats is at stake
MaxWidgetRows == 3    \* message rows, sent from the chat widget
MaxBadgeRows == 4     \* notification rows the browser has loaded

Users  == {1, 2, 3}   \* the registered users: a seller, two other users
Sellers == {2}        \* who posts further listings where listings are served in turn
Reqs   == {1, 2, 3}   \* requests that may be in flight together
Pair   == {1, 2}      \* the requests in flight where two are enough
Slots  == {1, 2}      \* HTTP requests the chat widget may have in flight together
Me     == 1           \* the user logged in at the browser
Turn   == {1}         \* the request being served where listings are served in turn
Texts  == {"a", "b"}  \* message texts the clients send
OneText == {"a"}      \* where no step depends on the text
Null   == 0           \* a NULL column, a zero uint, a record not found

\* HTTP status codes (net/http)
StatusOK         == 200
StatusCreated    == 201
StatusBadRequest == 400
StatusForbidden  == 403
StatusNotFound   == 404
StatusUnauthorized == 401
StatusConflict     == 409
StatusInternalServerError == 500

\* models.ListingStatus
StatusActive   == "active"
StatusSold     == "sold"
StatusInactive == "inactive"

VARIABLES
  users,          \* table users:         id -> [email, password, is_admin]
  listings,       \* table listings:      id -> [seller_id, title, description, price, category_id,
                  \*                             condition, status, views, created_at, deleted]
  images,         \* table listing_images: id -> [listing_id, image_url, is_primary, deleted]
  chats,          \* table chats:         id -> [listing_id, buyer_id, seller_id, updated_at]
  messages,       \* table messages:      id -> [chat_id, sender_id, content, is_read, read_at, created_at]
  notifications,  \* table notifications: id -> [user_id, link, is_read, read_at, deleted]
  clock,          \* the value time.Now() returns
  pc,             \* pc[r]: the statement request r executes next
  loc,            \* loc[r]: the handler's parameters and local variables
  last,           \* the response written by the step just taken (c.JSON), if any
  activeChat,     \* ChatWidgetComponent.activeChat: the id of the chat shown, or Null
  svcMessages,    \* ChatService.messages: the ids of the messages held, in order
  inflight,       \* inflight[s]: the HTTP request of the chat widget in slot s
  svcNotifications, \* NotificationService.notifications: the list held, [id, is_read]
  unreadCount     \* NotificationService.unreadCount

client == <<activeChat, svcMessages, inflight, svcNotifications, unreadCount>>
vars == <<users, listings, images, chats, messages, notifications, clock, pc, loc, last,
          activeChat, svcMessages, inflight, svcNotifications, unreadCount>>
db   == <<users, listings, images, chats, messages, notifications>>

\* ---- helpers ------------------------------------------------------------
Min(S) == CHOOSE x \in S : \A y \in S : x <= y

\* All orderings of the finite set S, as sequences without repetition.
Perms(S) ==
  {f \in [1..Cardinality(S) -> S] : \A i, j \in 1..Cardinality(S) : i # j => f[i] # f[j]}

\* The local variables of a handler that has not started.
NoLoc ==
  [op |-> "none", user |-> Null, arg |-> Null, text |-> "",
   chat |-> Null, buyer |-> Null, seller |-> Null, msg |-> Null,
   list |-> <<>>, acc |-> <<>>, input |-> Null, row |-> Null]

\* No response: the step just taken wrote none.
NoResp ==
  [op |-> "none", status |-> Null, chat_id |-> Null, msg |-> Null, list |-> <<>>, count |-> Null,
   listing |-> Null, pages |-> Null, user |-> Null, error |-> "", request |-> Null]

Idle(r) == pc[r] = "idle"
\* Request r is the only request being served.
Alone(r) == \A q \in Reqs \ {r} : Idle(q)

\* The handler of request r writes its response and returns; its locals die.
Respond(r, response) ==
  /\ pc'   = [pc EXCEPT ![r] = "idle"]
  /\ loc'  = [loc EXCEPT ![r] = NoLoc]
  /\ last' = [response EXCEPT !.op = loc[r].op]

\* c.JSON(status, ...) straight after the parameters were bound.
Reject(o, status) ==
  /\ UNCHANGED <<pc, loc>>
  /\ last' = [NoResp EXCEPT !.op = o, !.status = status]

\* The clients send a writing request only while the tables, with the rows the
\* requests in flight may still insert, hold fewer than k rows.
PendingMessages ==
  Cardinality({q \in Reqs : pc[q] \in {"cc_find", "cc_append", "cc_create", "cc_first", "sm_create"}})
PendingNotifs ==
  Cardinality({q \in Reqs : pc[q] \in {"cc_find", "cc_create", "cc_first", "cc_notify",
                                        "sm_create", "sm_bump", "sm_notify"}})
Room(k) == /\ Len(messages) + PendingMessages < k
           /\ Len(notifications) + PendingNotifs < k

\* database.DB.Create(&message): IsRead defaults to false, ReadAt to NULL.
NewMessage(c, u, t) ==
  [chat_id |-> c, sender_id |-> u, content |-> t, is_read |-> FALSE,
   read_at |-> Null, created_at |-> clock]

\* database.DB.Create(&notification) with Link "/chat/<id>".
NewNotification(u, c) ==
  [user_id |-> u, link |-> c, is_read |-> FALSE, read_at |-> Null, deleted |-> FALSE]

\* utils.HashPassword / utils.CheckPassword: the stored hash matches the
\* password it was made from and no other.
HashPassword(p) == <<"hash", p>>
CheckPassword(p, h) == h = HashPassword(p)

\* First(&listing, id): the row with this primary key unless it is
\* soft-deleted (deleted_at IS NULL), Null when there is none.
FindListing(id) ==
  IF id \in DOMAIN listings /\ ~listings[id].deleted THEN id ELSE Null

\* ---- initial state ------------------------------------------------------
\* The users are registered, user 3 with the admin flag; user 1 sells
\* listing 1, which has no images.
\* The store as the server starts with it: three users, one listing.
Seeded ==
  /\ users = <<[email |-> [name |-> <<"a">>, host |-> "ufl.edu"],
                password |-> HashPassword("secret1"), is_admin |-> FALSE],
               [email |-> [name |-> <<"b">>, host |-> "ufl.edu"],
                password |-> HashPassword("secret1"), is_admin |-> FALSE],
               [email |-> [name |-> <<"c">>, host |-> "ufl.edu"],
                password |-> HashPassword("secret2"), is_admin |-> TRUE]>>
  /\ listings = <<[seller_id |-> 1, title |-> <<"a">>, description |-> <<>>, price |-> 1,
                   category_id |-> 1, condition |-> "new", status |-> StatusActive,
                   views |-> 0, created_at |-> 1, deleted |-> FALSE]>>
  /\ images = <<>>

\* A slot the chat widget has no request in.
Unsent == [kind |-> "none", chat |-> Null, answered |-> FALSE, body |-> <<>>]

\* No request is being served.
Quiet ==
  /\ clock = 1
  /\ pc = [r \in Reqs |-> "idle"]
  /\ loc = [r \in Reqs |-> NoLoc]
  /\ last = NoResp

\* The browser has loaded nothing: signal([]), signal(null), signal(0).
NoClient ==
  /\ activeChat = Null
  /\ svcMessages = <<>>
  /\ inflight = [s \in Slots |-> Unsent]
  /\ svcNotifications = <<>>
  /\ unreadCount = 0

Init ==
  /\ Seeded
  /\ chats = <<>>
  /\ messages = <<>>
  /\ notifications = <<>>
  /\ Quiet
  /\ NoClient

\* time passes between any two statements
Elapse ==
  /\ clock' = clock + 1
  /\ UNCHANGED <<db, client, pc, loc>>
  /\ last' = NoResp

Tick == clock < MaxClock /\ Elapse

\* ---- CreateChat (POST /chats) -------------------------------------------
ListingArgs == 1..(Len(listings) + 1)

\* FindChat with the buyer left out of the lookup: Where("listing_id = ?").
FindChat_AnyBuyer(lid, uid) ==
  LET S == {i \in DOMAIN chats : chats[i].listing_id = lid}
  IN  IF S = {} THEN Null ELSE Min(S)

\* Where("listing_id = ? AND buyer_id = ?").First(&existingChat): the row with
\* the lowest primary key, Null when there is none.
FindChat(lid, uid) ==
  LET S == {i \in DOMAIN chats : chats[i].listing_id = lid /\ chats[i].buyer_id = uid}
  IN  IF S = {} THEN Null ELSE Min(S)

\* CreateChat_Load without the "Can't message your own listing" check.
CreateChat_Load_NoSelfCheck(r, u, lid, t) ==
  /\ Idle(r)
  /\ UNCHANGED <<db, clock, client>>
  /\ IF FindListing(lid) = Null
       THEN Reject("CreateChat", StatusNotFound)
     ELSE /\ pc' = [pc EXCEPT ![r] = "cc_find"]
          /\ loc' = [loc EXCEPT ![r] = [NoLoc EXCEPT !.op = "CreateChat", !.user = u,
                        !.arg = lid, !.text = t, !.seller = listings[lid].seller_id]]
          /\ last' = NoResp

\* bind input, load the listing, refuse the seller
CreateChat_Load(r, u, lid, t) ==
  /\ Idle(r)
  /\ UNCHANGED <<db, clock, client>>
  /\ IF FindListing(lid) = Null
       THEN Reject("CreateChat", StatusNotFound)
     ELSE IF listings[lid].seller_id = u
       THEN Reject("CreateChat", StatusBadRequest)
     ELSE /\ pc' = [pc EXCEPT ![r] = "cc_find"]
          /\ loc' = [loc EXCEPT ![r] = [NoLoc EXCEPT !.op = "CreateChat", !.user = u,
                        !.arg = lid, !.text = t, !.seller = listings[lid].seller_id]]
          /\ last' = NoResp

\* check if chat already exists
CreateChat_Find(r) ==
  /\ pc[r] = "cc_find"
  /\ LET c == FindChat(loc[r].arg, loc[r].user) IN
       /\ pc' = [pc EXCEPT ![r] = IF c # Null THEN "cc_append" ELSE "cc_create"]
       /\ loc' = [loc EXCEPT ![r].chat = c]
  /\ UNCHANGED <<db, clock, client>>
  /\ last' = NoResp

\* chat exists: database.DB.Create(&message)
CreateChat_Append(r) ==
  /\ pc[r] = "cc_append"
  /\ messages' = Append(messages, NewMessage(loc[r].chat, loc[r].user, loc[r].text))
  /\ pc' = [pc EXCEPT ![r] = "cc_bump"]
  /\ loc' = [loc EXCEPT ![r].msg = Len(messages) + 1]
  /\ UNCHANGED <<users, images, listings, chats, notifications, clock, client>>
  /\ last' = NoResp

\* chat exists: Update("updated_at", time.Now()) and respond 200
CreateChat_Bump(r) ==
  /\ pc[r] = "cc_bump"
  /\ chats' = [chats EXCEPT ![loc[r].chat].updated_at = clock]
  /\ Respond(r, [NoResp EXCEPT !.status = StatusOK, !.chat_id = loc[r].chat, !.msg = loc[r].msg])
  /\ UNCHANGED <<users, images, listings, messages, notifications, clock, client>>

\* no chat: database.DB.Create(&chat)
CreateChat_New(r) ==
  /\ pc[r] = "cc_create"
  /\ chats' = Append(chats, [listing_id |-> loc[r].arg, buyer_id |-> loc[r].user,
                             seller_id |-> loc[r].seller, updated_at |-> clock])
  /\ pc' = [pc EXCEPT ![r] = "cc_first"]
  /\ loc' = [loc EXCEPT ![r].chat = Len(chats) + 1]
  /\ UNCHANGED <<users, images, listings, messages, notifications, clock, client>>
  /\ last' = NoResp

\* no chat: create first message
CreateChat_First(r) ==
  /\ pc[r] = "cc_first"
  /\ messages' = Append(messages, NewMessage(loc[r].chat, loc[r].user, loc[r].text))
  /\ pc' = [pc EXCEPT ![r] = "cc_notify"]
  /\ loc' = [loc EXCEPT ![r].msg = Len(messages) + 1]
  /\ UNCHANGED <<users, images, listings, chats, notifications, clock, client>>
  /\ last' = NoResp

\* no chat: create notification for seller and respond 201
CreateChat_Notify(r) ==
  /\ pc[r] = "cc_notify"
  /\ notifications' = Append(notifications, NewNotification(loc[r].seller, loc[r].chat))
  /\ Respond(r, [NoResp EXCEPT !.status = StatusCreated, !.chat_id = loc[r].chat, !.msg = loc[r].msg])
  /\ UNCHANGED <<users, images, listings, chats, messages, clock, client>>

\* ---- GetChats (GET /chats) -----------------------------------------------
\* Where("buyer_id = ? OR seller_id = ?")
ChatsOf(u) == {i \in DOMAIN chats : chats[i].buyer_id = u \/ chats[i].seller_id = u}

\* Order("updated_at DESC").Find(&chats): rows with equal updated_at come in
\* an order SQL leaves open.
ChatsNewestFirst(u) ==
  {f \in Perms(ChatsOf(u)) :
     \A i \in 1..(Len(f) - 1) : chats[f[i]].updated_at >= chats[f[i + 1]].updated_at}

\* Where("chat_id = ?").Order("created_at DESC").First(&lastMessage): a message
\* of chat c with the greatest created_at (lastMessage.ID stays 0 without one).
LastMessages(c) ==
  LET S == {i \in DOMAIN messages : messages[i].chat_id = c}
  IN  IF S = {} THEN {Null}
      ELSE {i \in S : \A j \in S : messages[i].created_at >= messages[j].created_at}

\* UnreadCount with the sender left out: Where("chat_id = ? AND is_read = ?").
UnreadCount_AnySender(c, u) ==
  Cardinality({i \in DOMAIN messages : messages[i].chat_id = c /\ messages[i].is_read = FALSE})

\* Where("chat_id = ? AND sender_id != ? AND is_read = ?", chat.ID, userID, false).Count
UnreadCount(c, u) ==
  Cardinality({i \in DOMAIN messages :
                 /\ messages[i].chat_id = c
                 /\ messages[i].sender_id # u
                 /\ messages[i].is_read = FALSE})

\* load the caller's chats
GetChats_Find(r, u) ==
  /\ Idle(r)
  /\ UNCHANGED <<db, clock, client>>
  /\ \E f \in ChatsNewestFirst(u) :
       IF f = <<>>
         THEN /\ UNCHANGED <<pc, loc>>
              /\ last' = [NoResp EXCEPT !.op = "GetChats", !.status = StatusOK]
         ELSE /\ pc' = [pc EXCEPT ![r] = "gc_each"]
              /\ loc' = [loc EXCEPT ![r] = [NoLoc EXCEPT !.op = "GetChats", !.user = u, !.list = f]]
              /\ last' = NoResp

\* one turn of the loop: last message and unread count of the next chat
GetChats_Each(r) ==
  /\ pc[r] = "gc_each"
  /\ UNCHANGED <<db, clock, client>>
  /\ LET c == Head(loc[r].list) IN
     \E m \in LastMessages(c) :
       LET acc == Append(loc[r].acc, [id |-> c, unread_count |-> UnreadCount(c, loc[r].user),
                                      last_message |-> m])
       IN  IF Tail(loc[r].list) = <<>>
             THEN Respond(r, [NoResp EXCEPT !.status = StatusOK, !.list = acc])
             ELSE /\ pc' = pc
                  /\ loc' = [loc EXCEPT ![r].list = Tail(loc[r].list), ![r].acc = acc]
                  /\ last' = NoResp

\* ---- GetChat (GET /chats/:id) -------------------------------------------
ChatArgs == 1..(Len(chats) + 1)

\* NotParticipant with the membership check left out.
NotParticipant_Never(chat, u) == FALSE

\* chat.BuyerID != userID && chat.SellerID != userID
NotParticipant(chat, u) == chat.buyer_id # u /\ chat.seller_id # u

GetChat(r, u, id) ==
  /\ Idle(r)
  /\ UNCHANGED <<db, clock, client, pc, loc>>
  /\ IF id \notin DOMAIN chats
       THEN Reject("GetChat", StatusNotFound)
     ELSE IF NotParticipant(chats[id], u)
       THEN Reject("GetChat", StatusForbidden)
     ELSE last' = [NoResp EXCEPT !.op = "GetChat", !.status = StatusOK, !.chat_id = id]

\* ---- GetChatMessages (GET /chats/:id/messages) --------------------------
\* load the chat, refuse a caller who is not part of it
GetChatMessages_Load(r, u, id) ==
  /\ Idle(r)
  /\ UNCHANGED <<db, clock, client>>
  /\ IF id \notin DOMAIN chats
       THEN Reject("GetChatMessages", StatusNotFound)
     ELSE IF NotParticipant(chats[id], u)
       THEN Reject("GetChatMessages", StatusForbidden)
     ELSE /\ pc' = [pc EXCEPT ![r] = "gm_find"]
          /\ loc' = [loc EXCEPT ![r] = [NoLoc EXCEPT !.op = "GetChatMessages", !.user = u,
                        !.arg = id, !.chat = id]]
          /\ last' = NoResp

\* Where("chat_id = ?").Order("created_at ASC").Find(&messages)
MessagesOldestFirst(c) ==
  {f \in Perms({i \in DOMAIN messages : messages[i].chat_id = c}) :
     \A i \in 1..(Len(f) - 1) : messages[f[i]].created_at <= messages[f[i + 1]].created_at}

GetChatMessages_Find(r) ==
  /\ pc[r] = "gm_find"
  /\ \E f \in MessagesOldestFirst(loc[r].arg) :
       loc' = [loc EXCEPT ![r].list = f]
  /\ pc' = [pc EXCEPT ![r] = "gm_mark"]
  /\ UNCHANGED <<db, clock, client>>
  /\ last' = NoResp

\* MarkMessagesRead with the sender left out: Where("chat_id = ? AND is_read = ?").
MarkMessagesRead_AnySender(c, u) ==
  [i \in DOMAIN messages |->
     IF messages[i].chat_id = c /\ messages[i].is_read = FALSE
       THEN [messages[i] EXCEPT !.is_read = TRUE, !.read_at = clock]
       ELSE messages[i]]

\* Where("chat_id = ? AND sender_id != ? AND is_read = ?", id, userID, false).
\* Updates({"is_read": true, "read_at": now})
MarkMessagesRead(c, u) ==
  [i \in DOMAIN messages |->
     IF messages[i].chat_id = c /\ messages[i].sender_id # u /\ messages[i].is_read = FALSE
       THEN [messages[i] EXCEPT !.is_read = TRUE, !.read_at = clock]
       ELSE messages[i]]

\* mark messages as read and respond with the list fetched before
GetChatMessages_Mark(r) ==
  /\ pc[r] = "gm_mark"
  /\ messages' = MarkMessagesRead(loc[r].arg, loc[r].user)
  /\ Respond(r, [NoResp EXCEPT !.status = StatusOK, !.list = loc[r].list])
  /\ UNCHANGED <<users, images, listings, chats, notifications, clock, client>>

\* ---- SendMessage (POST /chats/:id/messages) -----------------------------
\* bind input, load the chat, refuse a caller who is not part of it
SendMessage_Load(r, u, id, t) ==
  /\ Idle(r)
  /\ UNCHANGED <<db, clock, client>>
  /\ IF id \notin DOMAIN chats
       THEN Reject("SendMessage", StatusNotFound)
     ELSE IF NotParticipant(chats[id], u)
       THEN Reject("SendMessage", StatusForbidden)
     ELSE /\ pc' = [pc EXCEPT ![r] = "sm_create"]
          /\ loc' = [loc EXCEPT ![r] = [NoLoc EXCEPT !.op = "SendMessage", !.user = u,
                        !.arg = id, !.text = t, !.chat = id,
                        !.buyer = chats[id].buyer_id, !.seller = chats[id].seller_id]]
          /\ last' = NoResp

\* database.DB.Create(&message)
SendMessage_Create(r) ==
  /\ pc[r] = "sm_create"
  /\ messages' = Append(messages, NewMessage(loc[r].arg, loc[r].user, loc[r].text))
  /\ pc' = [pc EXCEPT ![r] = "sm_bump"]
  /\ loc' = [loc EXCEPT ![r].msg = Len(messages) + 1]
  /\ UNCHANGED <<users, images, listings, chats, notifications, clock, client>>
  /\ last' = NoResp

\* update chat timestamp
SendMessage_Bump(r) ==
  /\ pc[r] = "sm_bump"
  /\ chats' = [chats EXCEPT ![loc[r].chat].updated_at = clock]
  /\ pc' = [pc EXCEPT ![r] = "sm_notify"]
  /\ UNCHANGED <<users, images, listings, messages, notifications, clock, client, loc>>
  /\ last' = NoResp

\* Recipient as CreateChat picks it: always the seller.
Recipient_AlwaysSeller(buyer, seller, u) == seller

\* if chat.BuyerID == userID { recipientID = chat.SellerID } else { ... BuyerID }
Recipient(buyer, seller, u) == IF buyer = u THEN seller ELSE buyer

\* create notification for recipient
SendMessage_Notify(r) ==
  /\ pc[r] = "sm_notify"
  /\ notifications' = Append(notifications,
        NewNotification(Recipient(loc[r].buyer, loc[r].seller, loc[r].user), loc[r].chat))
  /\ pc' = [pc EXCEPT ![r] = "sm_reload"]
  /\ UNCHANGED <<users, images, listings, chats, messages, clock, client, loc>>
  /\ last' = NoResp

\* reload with sender and respond 201
SendMessage_Reload(r) ==
  /\ pc[r] = "sm_reload"
  /\ Respond(r, [NoResp EXCEPT !.status = StatusCreated, !.chat_id = messages[loc[r].msg].chat_id,
                               !.msg = loc[r].msg])
  /\ UNCHANGED <<db, clock, client>>

\* ---- notification ledger (handlers/notification.go) ---------------------
NotifArgs == 1..(Len(notifications) + 1)

\* rows a query sees: soft-deleted rows (deleted_at set) are filtered out
Live(id) == id \in DOMAIN notifications /\ ~notifications[id].deleted

\* CountUnread with the owner left out: Where("is_read = ?", false).
CountUnread_AnyUser(u) ==
  Cardinality({i \in DOMAIN notifications : Live(i) /\ notifications[i].is_read = FALSE})

\* Where("user_id = ? AND is_read = ?", userID, false).Count(&count)
CountUnread(u) ==
  Cardinality({i \in DOMAIN notifications :
                 Live(i) /\ notifications[i].user_id = u /\ notifications[i].is_read = FALSE})

GetUnreadCount(r, u) ==
  /\ Idle(r)
  /\ UNCHANGED <<db, clock, client, pc, loc>>
  /\ last' = [NoResp EXCEPT !.op = "GetUnreadCount", !.status = StatusOK, !.count = CountUnread(u)]

\* load the notification, refuse a caller who does not own it
MarkNotificationRead_Load(r, u, id) ==
  /\ Idle(r)
  /\ UNCHANGED <<db, clock, client>>
  /\ IF ~Live(id)
       THEN Reject("MarkNotificationRead", StatusNotFound)
     ELSE IF notifications[id].user_id # u
       THEN Reject("MarkNotificationRead", StatusForbidden)
     ELSE /\ pc' = [pc EXCEPT ![r] = "mr_update"]
          /\ loc' = [loc EXCEPT ![r] = [NoLoc EXCEPT !.op = "MarkNotificationRead",
                        !.user = u, !.arg = id]]
          /\ last' = NoResp

\* Model(&notification).Updates({"is_read": true, "read_at": now})
MarkRead(id) ==
  [i \in DOMAIN notifications |->
     IF i = id /\ Live(i)
       THEN [notifications[i] EXCEPT !.is_read = TRUE, !.read_at = clock]
       ELSE notifications[i]]

MarkNotificationRead_Update(r) ==
  /\ pc[r] = "mr_update"
  /\ notifications' = MarkRead(loc[r].arg)
  /\ Respond(r, [NoResp EXCEPT !.status = StatusOK])
  /\ UNCHANGED <<users, images, listings, chats, messages, clock, client>>

\* MarkAllRead with the owner left out: Where("is_read = ?", false).
MarkAllRead_AnyUser(u) ==
  [i \in DOMAIN notifications |->
     IF Live(i) /\ notifications[i].is_read = FALSE
       THEN [notifications[i] EXCEPT !.is_read = TRUE, !.read_at = clock]
       ELSE notifications[i]]

\* Where("user_id = ? AND is_read = ?", userID, false).Updates({...})
MarkAllRead(u) ==
  [i \in DOMAIN notifications |->
     IF Live(i) /\ notifications[i].user_id = u /\ notifications[i].is_read = FALSE
       THEN [notifications[i] EXCEPT !.is_read = TRUE, !.read_at = clock]
       ELSE notifications[i]]

MarkAllNotificationsRead(r, u) ==
  /\ Idle(r)
  /\ notifications' = MarkAllRead(u)
  /\ last' = [NoResp EXCEPT !.op = "MarkAllNotificationsRead", !.status = StatusOK]
  /\ UNCHANGED <<users, images, listings, chats, messages, clock, client, pc, loc>>

\* load the notification, refuse a caller who does not own it
DeleteNotification_Load(r, u, id) ==
  /\ Idle(r)
  /\ UNCHANGED <<db, clock, client>>
  /\ IF ~Live(id)
       THEN Reject("DeleteNotification", StatusNotFound)
     ELSE IF notifications[id].user_id # u
       THEN Reject("DeleteNotification", StatusForbidden)
     ELSE /\ pc' = [pc EXCEPT ![r] = "dn_delete"]
          /\ loc' = [loc EXCEPT ![r] = [NoLoc EXCEPT !.op = "DeleteNotification",
                        !.user = u, !.arg = id]]
          /\ last' = NoResp

\* database.DB.Delete(&notification): sets deleted_at
DeleteNotification_Delete(r) ==
  /\ pc[r] = "dn_delete"
  /\ notifications' = [notifications EXCEPT ![loc[r].arg].deleted = TRUE]
  /\ Respond(r, [NoResp EXCEPT !.status = StatusOK])
  /\ UNCHANGED <<users, images, listings, chats, messages, clock, client>>

\* ---- listings (handlers/listing.go) --------------------------------------
\* seedCategories: the ten categories of a fresh database
Categories == 1..10

\* strconv.ParseUint(c.Param("id"), 10, 32) fails on a path segment that is
\* not an unsigned decimal; -1 stands for such a segment.
ParseUintFails(id) == id < 0

ListingIdArgs == -1..(Len(listings) + 1)

\* the image rows of listing id that queries see
ImagesOf(t, id) == {i \in DOMAIN t : t[i].listing_id = id /\ ~t[i].deleted}

\* DeleteImages that deletes nothing.
DeleteImages_None(id) == images

\* Where("listing_id = ?", listing.ID).Delete(&models.ListingImage{})
DeleteImages(id) ==
  [i \in DOMAIN images |->
     IF images[i].listing_id = id THEN [images[i] EXCEPT !.deleted = TRUE] ELSE images[i]]

\* models.ListingImage{ListingID, ImageURL, IsPrimary: i == 0}
NewImage(id, url, i) ==
  [listing_id |-> id, image_url |-> url, is_primary |-> (i = 0), deleted |-> FALSE]

\* ShouldBindJSON(&CreateListingInput): title, price and category_id are
\* required (not the zero value), price gte=0.
CreateListingBinds(input) ==
  input.title # <<>> /\ input.price > 0 /\ input.category_id # 0

\* bind the input, verify the category exists
CreateListing_Bind(r, u, input) ==
  /\ Idle(r)
  /\ UNCHANGED <<db, clock, client>>
  /\ IF ~CreateListingBinds(input) \/ input.category_id \notin Categories
       THEN Reject("CreateListing", StatusBadRequest)
     ELSE /\ pc' = [pc EXCEPT ![r] = "cl_create"]
          /\ loc' = [loc EXCEPT ![r] = [NoLoc EXCEPT !.op = "CreateListing", !.user = u,
                        !.input = input]]
          /\ last' = NoResp

\* database.DB.Create(&listing) with Status active and SellerID the caller
CreateListing_Create(r) ==
  /\ pc[r] = "cl_create"
  /\ listings' = Append(listings,
        [seller_id |-> loc[r].user, title |-> loc[r].input.title,
         description |-> loc[r].input.description, price |-> loc[r].input.price,
         category_id |-> loc[r].input.category_id, condition |-> loc[r].input.condition,
         status |-> StatusActive, views |-> 0, created_at |-> clock, deleted |-> FALSE])
  /\ pc' = [pc EXCEPT ![r] = "cl_image"]
  /\ loc' = [loc EXCEPT ![r].arg = Len(listings) + 1, ![r].list = loc[r].input.images]
  /\ UNCHANGED <<users, images, chats, messages, notifications, clock, client>>
  /\ last' = NoResp

\* for i, imageURL := range input.Images: database.DB.Create(&image)
CreateListing_Image(r) ==
  /\ pc[r] = "cl_image"
  /\ loc[r].list # <<>>
  /\ images' = Append(images, NewImage(loc[r].arg, Head(loc[r].list),
                                        Len(loc[r].input.images) - Len(loc[r].list)))
  /\ loc' = [loc EXCEPT ![r].list = Tail(loc[r].list)]
  /\ UNCHANGED <<users, listings, chats, messages, notifications, clock, client, pc>>
  /\ last' = NoResp

\* reload with associations and respond 201
CreateListing_Reload(r) ==
  /\ pc[r] = "cl_image"
  /\ loc[r].list = <<>>
  /\ Respond(r, [NoResp EXCEPT !.status = StatusCreated, !.listing = loc[r].arg])
  /\ UNCHANGED <<db, clock, client>>

\* ---- GetListing (GET /listings/:id) ---------------------------------------
\* parse the id, load the listing
GetListing_Load(r, id) ==
  /\ Idle(r)
  /\ UNCHANGED <<db, clock, client>>
  /\ IF ParseUintFails(id)
       THEN Reject("GetListing", StatusBadRequest)
     ELSE IF FindListing(id) = Null
       THEN Reject("GetListing", StatusNotFound)
     ELSE /\ pc' = [pc EXCEPT ![r] = "gl_update"]
          /\ loc' = [loc EXCEPT ![r] = [NoLoc EXCEPT !.op = "GetListing", !.arg = id,
                        !.row = listings[id]]]
          /\ last' = NoResp

\* IncrementViews without the + 1: Update("views", listing.Views).
IncrementViews_None(id, row) ==
  IF FindListing(id) = Null THEN listings
  ELSE [listings EXCEPT ![id].views = row.views]

\* database.DB.Model(&listing).Update("views", listing.Views+1): the value
\* written is one more than the value this request loaded.
IncrementViews(id, row) ==
  IF FindListing(id) = Null THEN listings
  ELSE [listings EXCEPT ![id].views = row.views + 1]

\* increment view count and respond 200
GetListing_Update(r) ==
  /\ pc[r] = "gl_update"
  /\ listings' = IncrementViews(loc[r].arg, loc[r].row)
  /\ Respond(r, [NoResp EXCEPT !.status = StatusOK, !.listing = loc[r].arg])
  /\ UNCHANGED <<users, images, chats, messages, notifications, clock, client>>

\* ---- UpdateListing (PUT /listings/:id) ------------------------------------
\* "Update fields": a field of the input that is not the zero value replaces
\* the loaded one; the status string is stored as it comes.
MergeInput(row, input) ==
  [row EXCEPT
     !.title       = IF input.title # <<>> THEN input.title ELSE @,
     !.description = IF input.description # <<>> THEN input.description ELSE @,
     !.price       = IF input.price > 0 THEN input.price ELSE @,
     !.category_id = IF input.category_id > 0 THEN input.category_id ELSE @,
     !.condition   = IF input.condition # "" THEN input.condition ELSE @,
     !.status      = IF input.status # "" THEN input.status ELSE @]

\* c.GetBool("isAdmin"): the admin flag of the caller
IsAdmin(u) == users[u].is_admin

\* MayUpdate with DeleteListing's test: the seller or an admin.
MayUpdate_OrAdmin(row, u) == row.seller_id = u \/ IsAdmin(u)

\* u may update the listing row
MayUpdate(row, u) == row.seller_id = u

\* parse the id, load the listing, check ownership, bind and merge the input
UpdateListing_Load(r, u, id, input) ==
  /\ Idle(r)
  /\ UNCHANGED <<db, clock, client>>
  /\ IF ParseUintFails(id)
       THEN Reject("UpdateListing", StatusBadRequest)
     ELSE IF FindListing(id) = Null
       THEN Reject("UpdateListing", StatusNotFound)
     ELSE IF ~MayUpdate(listings[id], u)
       THEN Reject("UpdateListing", StatusForbidden)
     ELSE /\ pc' = [pc EXCEPT ![r] = "ul_save"]
          /\ loc' = [loc EXCEPT ![r] = [NoLoc EXCEPT !.op = "UpdateListing", !.user = u,
                        !.arg = id, !.input = input, !.row = MergeInput(listings[id], input)]]
          /\ last' = NoResp

\* database.DB.Save(&listing): every column of the row is written from the
\* struct this request holds.  When the row was soft-deleted meanwhile the
\* UPDATE matches nothing; GORM releases differ in whether Save then
\* re-inserts the struct over the row.
UpdateListing_Save(r) ==
  /\ pc[r] = "ul_save"
  /\ \/ listings' = [listings EXCEPT ![loc[r].arg] = loc[r].row]
     \/ FindListing(loc[r].arg) = Null /\ listings' = listings
  /\ pc' = [pc EXCEPT ![r] = IF Len(loc[r].input.images) > 0 THEN "ul_images" ELSE "ul_reload"]
  /\ UNCHANGED <<users, images, chats, messages, notifications, clock, client, loc>>
  /\ last' = NoResp

\* images provided: delete the listing's image rows
UpdateListing_DeleteImages(r) ==
  /\ pc[r] = "ul_images"
  /\ images' = DeleteImages(loc[r].arg)
  /\ pc' = [pc EXCEPT ![r] = "ul_image"]
  /\ loc' = [loc EXCEPT ![r].list = loc[r].input.images]
  /\ UNCHANGED <<users, listings, chats, messages, notifications, clock, client>>
  /\ last' = NoResp

\* for i, imageURL := range input.Images: database.DB.Create(&image)
UpdateListing_Image(r) ==
  /\ pc[r] = "ul_image"
  /\ images' = Append(images, NewImage(loc[r].arg, Head(loc[r].list),
                                        Len(loc[r].input.images) - Len(loc[r].list)))
  /\ pc' = [pc EXCEPT ![r] = IF Len(loc[r].list) > 1 THEN "ul_image" ELSE "ul_reload"]
  /\ loc' = [loc EXCEPT ![r].list = Tail(loc[r].list)]
  /\ UNCHANGED <<users, listings, chats, messages, notifications, clock, client>>
  /\ last' = NoResp

\* reload with associations and respond 200
UpdateListing_Reload(r) ==
  /\ pc[r] = "ul_reload"
  /\ Respond(r, [NoResp EXCEPT !.status = StatusOK, !.listing = loc[r].arg])
  /\ UNCHANGED <<db, clock, client>>

\* ---- DeleteListing (DELETE /listings/:id) ---------------------------------
\* MayDelete without the ownership check.
MayDelete_Anyone(row, u, isAdmin) == TRUE

\* u, with admin flag isAdmin, may delete the listing row
MayDelete(row, u, isAdmin) == row.seller_id = u \/ isAdmin

\* parse the id, load the listing, check ownership or admin
DeleteListing_Load(r, u, isAdmin, id) ==
  /\ Idle(r)
  /\ UNCHANGED <<db, clock, client>>
  /\ IF ParseUintFails(id)
       THEN Reject("DeleteListing", StatusBadRequest)
     ELSE IF FindListing(id) = Null
       THEN Reject("DeleteListing", StatusNotFound)
     ELSE IF ~MayDelete(listings[id], u, isAdmin)
       THEN Reject("DeleteListing", StatusForbidden)
     ELSE /\ pc' = [pc EXCEPT ![r] = "dl_images"]
          /\ loc' = [loc EXCEPT ![r] = [NoLoc EXCEPT !.op = "DeleteListing", !.user = u,
                        !.arg = id]]
          /\ last' = NoResp

\* delete images first
DeleteListing_Images(r) ==
  /\ pc[r] = "dl_images"
  /\ images' = DeleteImages(loc[r].arg)
  /\ pc' = [pc EXCEPT ![r] = "dl_delete"]
  /\ UNCHANGED <<users, listings, chats, messages, notifications, clock, client, loc>>
  /\ last' = NoResp

\* database.DB.Delete(&listing): sets deleted_at, and respond 200
DeleteListing_Delete(r) ==
  /\ pc[r] = "dl_delete"
  /\ listings' = [listings EXCEPT ![loc[r].arg].deleted = TRUE]
  /\ Respond(r, [NoResp EXCEPT !.status = StatusOK, !.listing = loc[r].arg])
  /\ UNCHANGED <<users, images, chats, messages, notifications, clock, client>>

\* ---- GetListings (GET /listings) -------------------------------------------
\* A query holds page and limit as strconv.Atoi leaves them, the search text
\* ("" is <<>>), the condition ("" when absent), sort and order, and
\* category_id, min_price, max_price as sets: empty when the parameter is
\* absent, else the one value given.

\* title LIKE '%w%': w occurs in s
Contains(s, w) == \E i \in 1..(Len(s) - Len(w) + 1) : SubSeq(s, i, i + Len(w) - 1) = w

\* "Apply filters": each filter that is present narrows the query
FilterMatches(row, q) ==
  /\ q.search # <<>> => (Contains(row.title, q.search) \/ Contains(row.description, q.search))
  /\ \A c \in q.category_id : row.category_id = c
  /\ \A m \in q.min_price : row.price >= m
  /\ \A m \in q.max_price : row.price <= m
  /\ q.condition # "" => row.condition = q.condition

\* Matching without Where("status = ?", models.StatusActive).
Matching_AnyStatus(q) ==
  {i \in DOMAIN listings : ~listings[i].deleted /\ FilterMatches(listings[i], q)}

\* Model(&models.Listing{}).Where("status = ?", StatusActive) and the filters:
\* the rows the count and the page query select
Matching(q) ==
  {i \in DOMAIN listings :
     /\ ~listings[i].deleted
     /\ listings[i].status = StatusActive
     /\ FilterMatches(listings[i], q)}

\* columns a client can sort by; any other text fails the query
SortColumns == {"created_at", "price", "views"}
SortKey(row, col) ==
  CASE col = "price" -> row.price
    [] col = "views" -> row.views
    [] OTHER         -> row.created_at

\* Order(sortBy + " " + sortOrder): rows with equal keys come in an order SQL
\* leaves open.
Ordered(S, col, order) ==
  {f \in Perms(S) :
     \A i \in 1..(Len(f) - 1) :
        IF order = "asc"
          THEN SortKey(listings[f[i]], col) <= SortKey(listings[f[i + 1]], col)
          ELSE SortKey(listings[f[i]], col) >= SortKey(listings[f[i + 1]], col)}

\* Go's integer division truncates toward zero.
GoDiv(a, b) ==
  LET abs(x) == IF x < 0 THEN -x ELSE x
      m == abs(a) \div abs(b)
  IN  IF (a < 0) = (b < 0) THEN m ELSE -m

\* Offset(offset).Limit(limit): a negative offset skips nothing, a negative
\* limit does not limit.
Offset(page, limit) == (page - 1) * limit

Page(f, page, limit) ==
  LET offset == Offset(page, limit)
      skip   == IF offset > 0 THEN offset ELSE 0
      rest   == SubSeq(f, skip + 1, Len(f))
  IN  IF limit < 0 \/ limit >= Len(rest) THEN rest ELSE SubSeq(rest, 1, limit)

\* "pages": (total + int64(limit) - 1) / int64(limit)
PageCount(total, limit) == GoDiv(total + limit - 1, limit)

\* read the query parameters, count total
GetListings_Count(r, q) ==
  /\ Idle(r)
  /\ pc' = [pc EXCEPT ![r] = "gls_find"]
  /\ loc' = [loc EXCEPT ![r] = [NoLoc EXCEPT !.op = "GetListings", !.input = q,
                !.arg = Cardinality(Matching(q))]]
  /\ UNCHANGED <<db, clock, client>>
  /\ last' = NoResp

\* sort, paginate and respond; a limit of 0 panics in the page count
\* (integer divide by zero) and gin's Recovery answers 500.
GetListings_Find(r) ==
  /\ pc[r] = "gls_find"
  /\ UNCHANGED <<db, clock, client>>
  /\ LET q == loc[r].input IN
       IF q.sort \notin SortColumns \/ q.order \notin {"asc", "desc"}
         THEN Respond(r, [NoResp EXCEPT !.status = StatusInternalServerError,
                                        !.error = "Error fetching listings"])
       ELSE IF q.limit = 0
         THEN Respond(r, [NoResp EXCEPT !.status = StatusInternalServerError])
       ELSE \E f \in Ordered(Matching(q), q.sort, q.order) :
              Respond(r, [NoResp EXCEPT !.status = StatusOK, !.list = Page(f, q.page, q.limit),
                                        !.count = loc[r].arg,
                                        !.pages = PageCount(loc[r].arg, q.limit)])

\* ---- Register and Login (package handlers) -------------------------------
\* An email is a local part, a sequence of letters, and a host.

\* strings.ToLower
LowerLetter(c) == CASE c = "A" -> "a" [] c = "D" -> "d" [] OTHER -> c
LowerHost(h) == IF h = "UFL.EDU" THEN "ufl.edu" ELSE h
ToLower(e) == [name |-> [i \in DOMAIN e.name |-> LowerLetter(e.name[i])], host |-> LowerHost(e.host)]

\* len(password), for binding:"min=6"
PasswordLen(p) == CASE p = "" -> 0 [] p = "short" -> 5 [] OTHER -> 7

\* ShouldBindJSON(&RegisterInput): a well-formed email, a password of at
\* least 6 characters, first and last name
RegisterBinds(input) ==
  /\ input.email.name # <<>>
  /\ PasswordLen(input.password) >= 6
  /\ input.first_name # "" /\ input.last_name # ""

\* strings.HasSuffix(strings.ToLower(input.Email), "@ufl.edu")
IsUFEmail(e) == ToLower(e).host = "ufl.edu"

\* Where("email = ?", e).First(&user): SQLite compares text byte by byte, so
\* only a row whose email is e letter for letter; Null when there is none.
FindUser(e) ==
  LET S == {i \in DOMAIN users : users[i].email = e}
  IN  IF S = {} THEN Null ELSE Min(S)

\* bind the input, require a UF email, check if the user already exists
Register_Find(r, input) ==
  /\ Idle(r)
  /\ UNCHANGED <<db, clock, client>>
  /\ IF ~RegisterBinds(input) \/ ~IsUFEmail(input.email)
       THEN /\ UNCHANGED <<pc, loc>>
            /\ last' = [NoResp EXCEPT !.op = "Register", !.status = StatusBadRequest,
                                      !.request = input]
     ELSE IF FindUser(input.email) # Null
       THEN /\ UNCHANGED <<pc, loc>>
            /\ last' = [NoResp EXCEPT !.op = "Register", !.status = StatusConflict,
                                      !.request = input]
     ELSE /\ pc' = [pc EXCEPT ![r] = "rg_create"]
          /\ loc' = [loc EXCEPT ![r] = [NoLoc EXCEPT !.op = "Register", !.input = input]]
          /\ last' = NoResp

\* hash the password and database.DB.Create(&user) with the email in lower
\* case; the unique index on email refuses a second row with the same email
\* ("Error creating user").
Register_Create(r) ==
  /\ pc[r] = "rg_create"
  /\ LET input == loc[r].input
         email == ToLower(input.email)
     IN  IF \E i \in DOMAIN users : users[i].email = email
           THEN /\ UNCHANGED users
                /\ last' = [NoResp EXCEPT !.op = "Register",
                                          !.status = StatusInternalServerError,
                                          !.error = "Error creating user", !.request = input]
           ELSE /\ users' = Append(users, [email |-> email,
                                           password |-> HashPassword(input.password),
                                           is_admin |-> FALSE])
                /\ last' = [NoResp EXCEPT !.op = "Register", !.status = StatusCreated,
                                          !.user = Len(users) + 1, !.request = input]
  /\ pc' = [pc EXCEPT ![r] = "idle"]
  /\ loc' = [loc EXCEPT ![r] = NoLoc]
  /\ UNCHANGED <<listings, images, chats, messages, notifications, clock, client>>

\* ShouldBindJSON(&LoginInput): a well-formed email and a password
LoginBinds(input) == input.email.name # <<>> /\ input.password # ""

\* the answer to a login with an email that is not registered
LoginUnknownUser ==
  [NoResp EXCEPT !.status = StatusUnauthorized,
                 !.error = "Invalid email or password. Please try again."]

\* LoginWrongPassword that tells the client the account exists.
LoginWrongPassword_Telling ==
  [NoResp EXCEPT !.status = StatusUnauthorized, !.error = "Incorrect password"]

\* the answer to a login with a registered email and a wrong password
LoginWrongPassword ==
  [NoResp EXCEPT !.status = StatusUnauthorized,
                 !.error = "Invalid email or password. Please try again."]

\* bind the input, find the user by the email in lower case, check the
\* password, answer with a token for the user
LoginAnswer(input) ==
  LET u == FindUser(ToLower(input.email))
  IN  IF ~LoginBinds(input) THEN [NoResp EXCEPT !.status = StatusBadRequest]
      ELSE IF u = Null THEN LoginUnknownUser
      ELSE IF ~CheckPassword(input.password, users[u].password) THEN LoginWrongPassword
      ELSE [NoResp EXCEPT !.status = StatusOK, !.user = u]

Login(r, input) ==
  /\ Idle(r)
  /\ UNCHANGED <<db, clock, client, pc, loc>>
  /\ last' = [LoginAnswer(input) EXCEPT !.op = "Login", !.request = input]

\* ---- ChangePassword (handlers/user.go) -----------------------------------
\* ShouldBindJSON(&ChangePasswordInput): current_password required,
\* new_password required and of at least 6 characters
ChangePasswordBinds(input) ==
  /\ input.current_password # ""
  /\ PasswordLen(input.new_password) >= 6

\* PasswordVerified that accepts any current password.
PasswordVerified_Always(input, row) == TRUE

\* utils.CheckPassword(input.CurrentPassword, user.Password)
PasswordVerified(input, row) == CheckPassword(input.current_password, row.password)

\* bind the input, load the caller's row, verify the current password
ChangePassword_Load(r, u, input) ==
  /\ Idle(r)
  /\ UNCHANGED <<db, clock, client>>
  /\ IF ~ChangePasswordBinds(input)
       THEN /\ UNCHANGED <<pc, loc>>
            /\ last' = [NoResp EXCEPT !.op = "ChangePassword", !.status = StatusBadRequest,
                                      !.user = u, !.request = input]
     ELSE IF u \notin DOMAIN users
       THEN /\ UNCHANGED <<pc, loc>>
            /\ last' = [NoResp EXCEPT !.op = "ChangePassword", !.status = StatusNotFound,
                                      !.error = "User not found", !.user = u,
                                      !.request = input]
     ELSE IF ~PasswordVerified(input, users[u])
       THEN /\ UNCHANGED <<pc, loc>>
            /\ last' = [NoResp EXCEPT !.op = "ChangePassword", !.status = StatusBadRequest,
                                      !.error = "Current password is incorrect",
                                      !.user = u, !.request = input]
     ELSE /\ pc' = [pc EXCEPT ![r] = "cp_save"]
          /\ loc' = [loc EXCEPT ![r] = [NoLoc EXCEPT !.op = "ChangePassword", !.user = u,
                                                     !.input = input, !.row = users[u]]]
          /\ last' = NoResp

\* user.Password = hashedPassword; database.DB.Save(&user): every column of
\* the row is written from the struct loaded before; respond 200
ChangePassword_Save(r) ==
  /\ pc[r] = "cp_save"
  /\ users' = [users EXCEPT ![loc[r].user] =
                 [loc[r].row EXCEPT !.password = HashPassword(loc[r].input.new_password)]]
  /\ pc' = [pc EXCEPT ![r] = "idle"]
  /\ loc' = [loc EXCEPT ![r] = NoLoc]
  /\ last' = [NoResp EXCEPT !.op = "ChangePassword", !.status = StatusOK,
                            !.user = loc[r].user, !.request = loc[r].input]
  /\ UNCHANGED <<listings, images, chats, messages, notifications, clock, client>>

\* ---- what the clients send -------------------------------------------------
\* A listing is created only while the table, with the rows the requests in
\* flight may still insert, holds fewer than k rows; likewise for images and
\* for the views of a listing.
ListingRoom(k) == Len(listings) + Cardinality({q \in Reqs : pc[q] = "cl_create"}) < k

PendingImages(q) ==
  IF pc[q] \in {"cl_create", "ul_save", "ul_images"} THEN Len(loc[q].input.images)
  ELSE IF pc[q] \in {"cl_image", "ul_image"} THEN Len(loc[q].list)
  ELSE 0

RECURSIVE SumPendingImages(_)
SumPendingImages(S) ==
  IF S = {} THEN 0
  ELSE LET q == CHOOSE x \in S : TRUE IN PendingImages(q) + SumPendingImages(S \ {q})

ImageRoom(k, input) == Len(images) + SumPendingImages(Reqs) + Len(input.images) <= k

RECURSIVE SumViews(_)
SumViews(n) == IF n = 0 THEN 0 ELSE listings[n].views + SumViews(n - 1)

ViewsRoom(k) ==
  SumViews(Len(listings)) + Cardinality({q \in Reqs : pc[q] = "gl_update"}) < k

\* POST /listings bodies: two listings that bind (the second equal to listing
\* 1 in every column a query looks at), and bodies that do not.
CreateInput ==
  [title |-> <<"a">>, description |-> <<>>, price |-> 1, category_id |-> 1,
   condition |-> "new", images |-> <<>>]
CreateInputs ==
  { CreateInput,
    [CreateInput EXCEPT !.description = <<"b">>, !.price = 2, !.category_id = 2,
                        !.condition = "good"],
    [CreateInput EXCEPT !.title = <<>>],
    [CreateInput EXCEPT !.price = 0],
    [CreateInput EXCEPT !.category_id = 11] }
CreateInputsWithImages ==
  {[CreateInput EXCEPT !.images = im] : im \in {<<>>, <<"x">>, <<"x", "y">>}}

\* PUT /listings/:id bodies: every field left out, a status, a title, images
UpdateInput ==
  [title |-> <<>>, description |-> <<>>, price |-> 0, category_id |-> 0,
   condition |-> "", status |-> "", images |-> <<>>]
UpdateInputs ==
  {[UpdateInput EXCEPT !.status = st] : st \in {"", StatusSold, StatusActive}}
UpdateInputsAnyStatus ==
  {[UpdateInput EXCEPT !.status = st] :
     st \in {"", StatusSold, StatusInactive, StatusActive, "archived"}}
UpdateInputsWithImages ==
  {[UpdateInput EXCEPT !.title = <<"b">>]} \cup
  {[UpdateInput EXCEPT !.images = im] : im \in {<<>>, <<"y">>, <<"y", "x">>}}

\* GET /listings queries: every page and limit under three orderings, and on
\* the first page no filter, each filter alone and all the filters together.
Query ==
  [page |-> 1, limit |-> 2, search |-> <<>>, category_id |-> {}, min_price |-> {},
   max_price |-> {}, condition |-> "", sort |-> "created_at", order |-> "desc"]
PageQueries ==
  {[Query EXCEPT !.page = p, !.limit = l, !.sort = so[1], !.order = so[2]] :
     p \in 1..3, l \in 0..2,
     so \in {<<"created_at", "desc">>, <<"price", "asc">>, <<"bogus", "desc">>}}
FilterQueries ==
  { Query,
    [Query EXCEPT !.search = <<"b">>],
    [Query EXCEPT !.category_id = {1}],
    [Query EXCEPT !.min_price = {2}],
    [Query EXCEPT !.max_price = {1}],
    [Query EXCEPT !.condition = "good"],
    [Query EXCEPT !.search = <<"b">>, !.category_id = {2}, !.min_price = {2},
                  !.max_price = {2}, !.condition = "good"] }
Queries == PageQueries \cup FilterQueries
\* page and limit around zero, as the client may send them
EdgeQueries ==
  {[Query EXCEPT !.page = p, !.limit = l, !.order = o] :
     p \in -1..3, l \in -1..3, o \in {"asc", "desc"}}

\* A user registers only while the table, with the rows the requests in
\* flight may still insert, holds fewer than k rows.
UserRoom(k) == Len(users) + Cardinality({q \in Reqs : pc[q] = "rg_create"}) < k

\* POST /auth/register and /auth/login bodies
Emails ==
  {[name |-> n, host |-> h] :
     n \in {<<>>, <<"a">>, <<"A">>, <<"d">>, <<"D">>}, h \in {"ufl.edu", "UFL.EDU", "gmail.com"}}
RegisterInputs ==
  {[email |-> e, password |-> p, first_name |-> f, last_name |-> "User"] :
     e \in Emails, p \in {"secret1", "short"}, f \in {"Test", ""}}
LoginInputs ==
  {[email |-> e, password |-> p] : e \in Emails, p \in {"secret1", "secret2", ""}}

\* PUT /users/me/password bodies, and the logins that follow them
ChangePasswordInputs ==
  {[current_password |-> c, new_password |-> n] :
     c \in {"secret1", "secret2", "wrong", ""}, n \in {"secret1", "secret2", "short"}}
UserLogins ==
  {[email |-> users[u].email, password |-> p] :
     u \in DOMAIN users, p \in {"secret1", "secret2", "wrong"}}

\* ---- the chat widget (chat-widget.component.ts, ChatService) -------------
\* The user Me has the widget open.  A request of the widget travels in a
\* slot: it is sent, the server handles it, and its response arrives; the
\* responses of two requests arrive in either order.
NoRequest(s) == inflight[s].kind = "none"

\* The chats the widget lists: those of the user.
MyChats == {c \in DOMAIN chats : ~NotParticipant(chats[c], Me)}

\* openChat(chat): this.activeChat.set(chat); getChatMessages(chat.id).subscribe()
openChat(s, c) ==
  /\ NoRequest(s)
  /\ c \in MyChats
  /\ activeChat' = c
  /\ inflight' = [inflight EXCEPT ![s] = [kind |-> "getChatMessages", chat |-> c,
                                          answered |-> FALSE, body |-> <<>>]]
  /\ UNCHANGED <<db, clock, pc, loc, last, svcMessages, svcNotifications, unreadCount>>

\* backToList(): this.activeChat.set(null); the list of chats is loaded again
backToList ==
  /\ activeChat # Null
  /\ activeChat' = Null
  /\ UNCHANGED <<db, clock, pc, loc, last, svcMessages, inflight, svcNotifications, unreadCount>>

\* sendMessage(): needs an active chat; chatService.sendMessage(chat.id, text)
sendMessage(s) ==
  /\ NoRequest(s)
  /\ activeChat # Null
  /\ inflight' = [inflight EXCEPT ![s] = [kind |-> "sendMessage", chat |-> activeChat,
                                          answered |-> FALSE, body |-> <<>>]]
  /\ UNCHANGED <<db, clock, pc, loc, last, activeChat, svcMessages, svcNotifications, unreadCount>>

\* The server handles GET /chats/:id/messages of the user: GetChatMessages,
\* from the fetch to the response, with no other request in between.
ServeGetChatMessages(s) ==
  /\ ~NoRequest(s) /\ ~inflight[s].answered /\ inflight[s].kind = "getChatMessages"
  /\ \E f \in MessagesOldestFirst(inflight[s].chat) :
       inflight' = [inflight EXCEPT ![s].answered = TRUE, ![s].body = f]
  /\ messages' = MarkMessagesRead(inflight[s].chat, Me)
  /\ UNCHANGED <<users, listings, images, chats, notifications, clock, pc, loc, last,
                 activeChat, svcMessages, svcNotifications, unreadCount>>

\* The server handles POST /chats/:id/messages of the user: SendMessage, from
\* the insert to the response, with no other request in between.
ServeSendMessage(s) ==
  /\ ~NoRequest(s) /\ ~inflight[s].answered /\ inflight[s].kind = "sendMessage"
  /\ LET c == inflight[s].chat IN
       /\ messages' = Append(messages, NewMessage(c, Me, "a"))
       /\ chats' = [chats EXCEPT ![c].updated_at = clock]
       /\ notifications' = Append(notifications,
             NewNotification(Recipient(chats[c].buyer_id, chats[c].seller_id, Me), c))
       /\ inflight' = [inflight EXCEPT ![s].answered = TRUE, ![s].body = <<Len(messages) + 1>>]
  /\ UNCHANGED <<users, listings, images, clock, pc, loc, last,
                 activeChat, svcMessages, svcNotifications, unreadCount>>

\* The response arrives and the tap of the service runs:
\* getChatMessages: this.messages.set(messages)
\* sendMessage:     this.messages.update(messages => [...messages, message])
Receive(s) ==
  /\ ~NoRequest(s) /\ inflight[s].answered
  /\ svcMessages' = IF inflight[s].kind = "getChatMessages" THEN inflight[s].body
                    ELSE svcMessages \o inflight[s].body
  /\ inflight' = [inflight EXCEPT ![s] = Unsent]
  /\ UNCHANGED <<db, clock, pc, loc, last, activeChat, svcNotifications, unreadCount>>

\* The user has two chats on listing 1, with buyer 2 and with buyer 3, one
\* message in each, and opens the widget.
InitWidget ==
  /\ Seeded
  /\ chats = <<[listing_id |-> 1, buyer_id |-> 2, seller_id |-> 1, updated_at |-> 1],
               [listing_id |-> 1, buyer_id |-> 3, seller_id |-> 1, updated_at |-> 1]>>
  /\ messages = <<[chat_id |-> 1, sender_id |-> 2, content |-> "a", is_read |-> FALSE,
                   read_at |-> Null, created_at |-> 1],
                  [chat_id |-> 2, sender_id |-> 3, content |-> "a", is_read |-> FALSE,
                   read_at |-> Null, created_at |-> 1]>>
  /\ notifications = <<NewNotification(1, 1), NewNotification(1, 2)>>
  /\ Quiet
  /\ NoClient

NextWidget ==
  \/ \E s \in Slots, c \in DOMAIN chats : openChat(s, c)
  \/ backToList
  \/ \E s \in Slots : Len(messages) < MaxWidgetRows /\ sendMessage(s)
  \/ \E s \in Slots : ServeGetChatMessages(s)
  \/ \E s \in Slots : ServeSendMessage(s)
  \/ \E s \in Slots : Receive(s)

SpecWidget == InitWidget /\ [][NextWidget]_vars

\* ---- the notification dropdown (NotificationService) ---------------------
\* Each call below is a request the server answers with success and the tap
\* that runs on its response; a request the server refuses (404, 403) runs no
\* tap.  Calls are made one after the other.
MaxOf(a, b) == IF a >= b THEN a ELSE b

\* notifications.map(n => n.id === id ? { ...n, is_read: true } : n)
MapRead(list, id) ==
  [k \in DOMAIN list |-> IF list[k].id = id THEN [list[k] EXCEPT !.is_read = TRUE] ELSE list[k]]

\* notifications.filter(n => n.id !== id)
RECURSIVE FilterOut(_, _)
FilterOut(list, id) ==
  IF list = <<>> THEN <<>>
  ELSE IF Head(list).id = id THEN FilterOut(Tail(list), id)
  ELSE <<Head(list)>> \o FilterOut(Tail(list), id)

\* MarkNotificationRead answers 200: the row is live and the caller's
Marks(id) == Live(id) /\ notifications[id].user_id = Me

\* markAsRead(id): PUT /notifications/:id/read, then the list entry is set
\* read and unreadCount becomes Math.max(0, count - 1)
markAsRead(id) ==
  /\ Marks(id)
  /\ notifications' = MarkRead(id)
  /\ svcNotifications' = MapRead(svcNotifications, id)
  /\ unreadCount' = MaxOf(0, unreadCount - 1)
  /\ UNCHANGED <<users, listings, images, chats, messages, clock, pc, loc, last,
                 activeChat, svcMessages, inflight>>

\* markAllAsRead(): PUT /notifications/read-all, then every entry is set read
\* and unreadCount becomes 0
markAllAsRead ==
  /\ notifications' = MarkAllRead(Me)
  /\ svcNotifications' = [k \in DOMAIN svcNotifications |->
                            [svcNotifications[k] EXCEPT !.is_read = TRUE]]
  /\ unreadCount' = 0
  /\ UNCHANGED <<users, listings, images, chats, messages, clock, pc, loc, last,
                 activeChat, svcMessages, inflight>>

\* deleteNotification(id): DELETE /notifications/:id, then the entry is
\* filtered out and, if it was found unread, unreadCount becomes
\* Math.max(0, count - 1)
deleteNotification(id) ==
  /\ Marks(id)
  /\ notifications' = [notifications EXCEPT ![id].deleted = TRUE]
  /\ svcNotifications' = FilterOut(svcNotifications, id)
  /\ unreadCount' =
       IF \E k \in DOMAIN svcNotifications :
            svcNotifications[k].id = id /\ ~svcNotifications[k].is_read
         THEN MaxOf(0, unreadCount - 1) ELSE unreadCount
  /\ UNCHANGED <<users, listings, images, chats, messages, clock, pc, loc, last,
                 activeChat, svcMessages, inflight>>

\* loadNotifications(): the user has MaxBadgeRows notifications, read or not,
\* and the service has loaded the list and the count from the same store.
InitBadge ==
  /\ Seeded
  /\ chats = <<>>
  /\ messages = <<>>
  /\ notifications \in
       [1..MaxBadgeRows ->
          {NewNotification(Me, 1),
           [NewNotification(Me, 1) EXCEPT !.is_read = TRUE, !.read_at = 1]}]
  /\ Quiet
  /\ activeChat = Null
  /\ svcMessages = <<>>
  /\ inflight = [s \in Slots |-> Unsent]
  /\ svcNotifications = [k \in 1..MaxBadgeRows |->
                           [id |-> k, is_read |-> notifications[k].is_read]]
  /\ unreadCount = CountUnread(Me)

NextBadge ==
  \/ \E id \in NotifArgs : markAsRead(id)
  \/ markAllAsRead
  \/ \E id \in NotifArgs : deleteNotification(id)

SpecBadge == InitBadge /\ [][NextBadge]_vars

\* ---- the program --------------------------------------------------------
\* The whole backend: requests are served concurrently, any request in flight
\* may take its next step.
Next ==
  \/ Tick
  \/ \E r \in Reqs, u \in Users, lid \in ListingArgs, t \in OneText : Room(MaxRaceRows) /\ CreateChat_Load(r, u, lid, t)
  \/ \E r \in Reqs : CreateChat_Find(r)
  \/ \E r \in Reqs : CreateChat_Append(r)
  \/ \E r \in Reqs : CreateChat_Bump(r)
  \/ \E r \in Reqs : CreateChat_New(r)
  \/ \E r \in Reqs : CreateChat_First(r)
  \/ \E r \in Reqs : CreateChat_Notify(r)
  \/ \E r \in Reqs, u \in Users, id \in ChatArgs, t \in OneText : Room(MaxRaceRows) /\ SendMessage_Load(r, u, id, t)
  \/ \E r \in Reqs : SendMessage_Create(r)
  \/ \E r \in Reqs : SendMessage_Bump(r)
  \/ \E r \in Reqs : SendMessage_Notify(r)
  \/ \E r \in Reqs : SendMessage_Reload(r)
  \/ \E r \in Reqs, u \in Users : GetChats_Find(r, u)
  \/ \E r \in Reqs : GetChats_Each(r)
  \/ \E r \in Reqs, u \in Users, id \in ChatArgs : GetChat(r, u, id)
  \/ \E r \in Reqs, u \in Users, id \in ChatArgs : GetChatMessages_Load(r, u, id)
  \/ \E r \in Reqs : GetChatMessages_Find(r)
  \/ \E r \in Reqs : GetChatMessages_Mark(r)
  \/ \E r \in Reqs, u \in Users : GetUnreadCount(r, u)
  \/ \E r \in Reqs, u \in Users, id \in NotifArgs : MarkNotificationRead_Load(r, u, id)
  \/ \E r \in Reqs : MarkNotificationRead_Update(r)
  \/ \E r \in Reqs, u \in Users : MarkAllNotificationsRead(r, u)
  \/ \E r \in Reqs, u \in Users, id \in NotifArgs : DeleteNotification_Load(r, u, id)
  \/ \E r \in Reqs : DeleteNotification_Delete(r)
  \/ \E r \in Reqs, u \in Users, input \in CreateInputs \cup CreateInputsWithImages : ListingRoom(MaxListings) /\ ImageRoom(MaxImages, input) /\ CreateListing_Bind(r, u, input)
  \/ \E r \in Reqs : CreateListing_Create(r)
  \/ \E r \in Reqs : CreateListing_Image(r)
  \/ \E r \in Reqs : CreateListing_Reload(r)
  \/ \E r \in Reqs, id \in ListingIdArgs : ViewsRoom(MaxViews) /\ GetListing_Load(r, id)
  \/ \E r \in Reqs : GetListing_Update(r)
  \/ \E r \in Reqs, u \in Users, id \in ListingIdArgs, input \in UpdateInputsAnyStatus \cup UpdateInputsWithImages : ImageRoom(MaxImages, input) /\ UpdateListing_Load(r, u, id, input)
  \/ \E r \in Reqs : UpdateListing_Save(r)
  \/ \E r \in Reqs : UpdateListing_DeleteImages(r)
  \/ \E r \in Reqs : UpdateListing_Image(r)
  \/ \E r \in Reqs : UpdateListing_Reload(r)
  \/ \E r \in Reqs, u \in Users, id \in ListingIdArgs : DeleteListing_Load(r, u, IsAdmin(u), id)
  \/ \E r \in Reqs : DeleteListing_Images(r)
  \/ \E r \in Reqs : DeleteListing_Delete(r)
  \/ \E r \in Reqs, q \in Queries : GetListings_Count(r, q)
  \/ \E r \in Reqs : GetListings_Find(r)
  \/ \E r \in Reqs, input \in RegisterInputs : UserRoom(MaxUsers) /\ Register_Find(r, input)
  \/ \E r \in Reqs : Register_Create(r)
  \/ \E r \in Reqs, input \in LoginInputs : Login(r, input)
  \/ \E r \in Reqs, u \in Users, input \in ChangePasswordInputs : ChangePassword_Load(r, u, input)
  \/ \E r \in Reqs : ChangePassword_Save(r)

Spec == Init /\ [][Next]_vars

\* The chat routes (/chats...) served concurrently.
NextChat ==
  \/ Tick
  \/ \E r \in Pair, u \in Users, lid \in ListingArgs, t \in OneText : Room(MaxRaceRows) /\ CreateChat_Load(r, u, lid, t)
  \/ \E r \in Pair : CreateChat_Find(r)
  \/ \E r \in Pair : CreateChat_Append(r)
  \/ \E r \in Pair : CreateChat_Bump(r)
  \/ \E r \in Pair : CreateChat_New(r)
  \/ \E r \in Pair : CreateChat_First(r)
  \/ \E r \in Pair : CreateChat_Notify(r)
  \/ \E r \in Pair, u \in Users, id \in ChatArgs, t \in OneText : Room(MaxRaceRows) /\ SendMessage_Load(r, u, id, t)
  \/ \E r \in Pair : SendMessage_Create(r)
  \/ \E r \in Pair : SendMessage_Bump(r)
  \/ \E r \in Pair : SendMessage_Notify(r)
  \/ \E r \in Pair : SendMessage_Reload(r)
  \/ \E r \in Pair, u \in Users : GetChats_Find(r, u)
  \/ \E r \in Pair : GetChats_Each(r)
  \/ \E r \in Pair, u \in Users, id \in ChatArgs : GetChat(r, u, id)
  \/ \E r \in Pair, u \in Users, id \in ChatArgs : GetChatMessages_Load(r, u, id)
  \/ \E r \in Pair : GetChatMessages_Find(r)
  \/ \E r \in Pair : GetChatMessages_Mark(r)

SpecChat == Init /\ [][NextChat]_vars

\* POST /chats alone, three requests in flight together.
NextContact ==
  \/ \E r \in Reqs, u \in Users, lid \in ListingArgs, t \in OneText : Room(MaxContacts) /\ CreateChat_Load(r, u, lid, t)
  \/ \E r \in Reqs : CreateChat_Find(r)
  \/ \E r \in Reqs : CreateChat_Append(r)
  \/ \E r \in Reqs : CreateChat_Bump(r)
  \/ \E r \in Reqs : CreateChat_New(r)
  \/ \E r \in Reqs : CreateChat_First(r)
  \/ \E r \in Reqs : CreateChat_Notify(r)

SpecContact == Init /\ [][NextContact]_vars

\* POST /chats with two requests in flight together while time passes, and
\* GET /chats served when they are done.
TickOrder == clock < MaxOrderClock /\ Elapse

NextOrder ==
  \/ TickOrder
  \/ \E r \in Pair, u \in Users, lid \in ListingArgs, t \in OneText : Room(MaxRaceRows) /\ CreateChat_Load(r, u, lid, t)
  \/ \E r \in Pair : CreateChat_Find(r)
  \/ \E r \in Pair : CreateChat_Append(r)
  \/ \E r \in Pair : CreateChat_Bump(r)
  \/ \E r \in Pair : CreateChat_New(r)
  \/ \E r \in Pair : CreateChat_First(r)
  \/ \E r \in Pair : CreateChat_Notify(r)
  \/ \E r \in Pair, u \in Users : Alone(r) /\ GetChats_Find(r, u)
  \/ \E r \in Pair : GetChats_Each(r)

SpecOrder == Init /\ [][NextOrder]_vars

\* The chat routes served one request after the other: a request takes a step
\* only while no other request is in flight.  No handler reads a message text.
NextChatSeq ==
  \/ Tick
  \/ \E r \in Pair, u \in Users, lid \in ListingArgs, t \in OneText : Alone(r) /\ Room(MaxRows) /\ CreateChat_Load(r, u, lid, t)
  \/ \E r \in Pair : Alone(r) /\ CreateChat_Find(r)
  \/ \E r \in Pair : Alone(r) /\ CreateChat_Append(r)
  \/ \E r \in Pair : Alone(r) /\ CreateChat_Bump(r)
  \/ \E r \in Pair : Alone(r) /\ CreateChat_New(r)
  \/ \E r \in Pair : Alone(r) /\ CreateChat_First(r)
  \/ \E r \in Pair : Alone(r) /\ CreateChat_Notify(r)
  \/ \E r \in Pair, u \in Users, id \in ChatArgs, t \in OneText : Alone(r) /\ Room(MaxRows) /\ SendMessage_Load(r, u, id, t)
  \/ \E r \in Pair : Alone(r) /\ SendMessage_Create(r)
  \/ \E r \in Pair : Alone(r) /\ SendMessage_Bump(r)
  \/ \E r \in Pair : Alone(r) /\ SendMessage_Notify(r)
  \/ \E r \in Pair : Alone(r) /\ SendMessage_Reload(r)
  \/ \E r \in Pair, u \in Users : Alone(r) /\ GetChats_Find(r, u)
  \/ \E r \in Pair : Alone(r) /\ GetChats_Each(r)
  \/ \E r \in Pair, u \in Users, id \in ChatArgs : Alone(r) /\ GetChat(r, u, id)
  \/ \E r \in Pair, u \in Users, id \in ChatArgs : Alone(r) /\ GetChatMessages_Load(r, u, id)
  \/ \E r \in Pair : Alone(r) /\ GetChatMessages_Find(r)
  \/ \E r \in Pair : Alone(r) /\ GetChatMessages_Mark(r)

SpecChatSeq == Init /\ [][NextChatSeq]_vars

\* The two routes that create rows (POST /chats, POST /chats/:id/messages),
\* served one request after the other, with clients that send different texts.
NextPostSeq ==
  \/ Tick
  \/ \E r \in Pair, u \in Users, lid \in ListingArgs, t \in Texts : Alone(r) /\ Room(MaxRows) /\ CreateChat_Load(r, u, lid, t)
  \/ \E r \in Pair : Alone(r) /\ CreateChat_Find(r)
  \/ \E r \in Pair : Alone(r) /\ CreateChat_Append(r)
  \/ \E r \in Pair : Alone(r) /\ CreateChat_Bump(r)
  \/ \E r \in Pair : Alone(r) /\ CreateChat_New(r)
  \/ \E r \in Pair : Alone(r) /\ CreateChat_First(r)
  \/ \E r \in Pair : Alone(r) /\ CreateChat_Notify(r)
  \/ \E r \in Pair, u \in Users, id \in ChatArgs, t \in Texts : Alone(r) /\ Room(MaxRows) /\ SendMessage_Load(r, u, id, t)
  \/ \E r \in Pair : Alone(r) /\ SendMessage_Create(r)
  \/ \E r \in Pair : Alone(r) /\ SendMessage_Bump(r)
  \/ \E r \in Pair : Alone(r) /\ SendMessage_Notify(r)
  \/ \E r \in Pair : Alone(r) /\ SendMessage_Reload(r)

SpecPostSeq == Init /\ [][NextPostSeq]_vars

\* The notification routes (/notifications...) and the two routes that create
\* notifications, served one request after the other.
NextLedgerSeq ==
  \/ Tick
  \/ \E r \in Pair, u \in Users, lid \in ListingArgs, t \in OneText : Alone(r) /\ Room(MaxRows) /\ CreateChat_Load(r, u, lid, t)
  \/ \E r \in Pair : Alone(r) /\ CreateChat_Find(r)
  \/ \E r \in Pair : Alone(r) /\ CreateChat_Append(r)
  \/ \E r \in Pair : Alone(r) /\ CreateChat_Bump(r)
  \/ \E r \in Pair : Alone(r) /\ CreateChat_New(r)
  \/ \E r \in Pair : Alone(r) /\ CreateChat_First(r)
  \/ \E r \in Pair : Alone(r) /\ CreateChat_Notify(r)
  \/ \E r \in Pair, u \in Users, id \in ChatArgs, t \in OneText : Alone(r) /\ Room(MaxRows) /\ SendMessage_Load(r, u, id, t)
  \/ \E r \in Pair : Alone(r) /\ SendMessage_Create(r)
  \/ \E r \in Pair : Alone(r) /\ SendMessage_Bump(r)
  \/ \E r \in Pair : Alone(r) /\ SendMessage_Notify(r)
  \/ \E r \in Pair : Alone(r) /\ SendMessage_Reload(r)
  \/ \E r \in Pair, u \in Users : Alone(r) /\ GetUnreadCount(r, u)
  \/ \E r \in Pair, u \in Users, id \in NotifArgs : Alone(r) /\ MarkNotificationRead_Load(r, u, id)
  \/ \E r \in Pair : Alone(r) /\ MarkNotificationRead_Update(r)
  \/ \E r \in Pair, u \in Users : Alone(r) /\ MarkAllNotificationsRead(r, u)
  \/ \E r \in Pair, u \in Users, id \in NotifArgs : Alone(r) /\ DeleteNotification_Load(r, u, id)
  \/ \E r \in Pair : Alone(r) /\ DeleteNotification_Delete(r)

SpecLedgerSeq == Init /\ [][NextLedgerSeq]_vars

\* Registration and login (/auth...), one request after the other.
NextAuthSeq ==
  \/ \E r \in Pair, input \in RegisterInputs : Alone(r) /\ UserRoom(MaxUsers) /\ Register_Find(r, input)
  \/ \E r \in Pair : Alone(r) /\ Register_Create(r)
  \/ \E r \in Pair, input \in LoginInputs : Alone(r) /\ Login(r, input)

SpecAuthSeq == Init /\ [][NextAuthSeq]_vars

\* Passwords changed and tried at login, one request after the other.
NextPasswordSeq ==
  \/ \E r \in Turn, u \in Users, input \in ChangePasswordInputs : Alone(r) /\ ChangePassword_Load(r, u, input)
  \/ \E r \in Turn : Alone(r) /\ ChangePassword_Save(r)
  \/ \E r \in Turn, input \in UserLogins : Alone(r) /\ Login(r, input)

SpecPasswordSeq == Init /\ [][NextPasswordSeq]_vars

\* Browsing (/listings...): listings without images are created, change
\* status, are deleted, fetched and listed, one request after the other.
NextBrowseSeq ==
  \/ \E r \in Turn, u \in Sellers, input \in CreateInputs : Alone(r) /\ ListingRoom(MaxListings) /\ CreateListing_Bind(r, u, input)
  \/ \E r \in Turn : Alone(r) /\ CreateListing_Create(r)
  \/ \E r \in Turn : Alone(r) /\ CreateListing_Reload(r)
  \/ \E r \in Turn, u \in Users, id \in ListingIdArgs, input \in UpdateInputs : Alone(r) /\ UpdateListing_Load(r, u, id, input)
  \/ \E r \in Turn : Alone(r) /\ UpdateListing_Save(r)
  \/ \E r \in Turn : Alone(r) /\ UpdateListing_Reload(r)
  \/ \E r \in Turn, u \in Users, id \in ListingIdArgs : Alone(r) /\ DeleteListing_Load(r, u, IsAdmin(u), id)
  \/ \E r \in Turn : Alone(r) /\ DeleteListing_Images(r)
  \/ \E r \in Turn : Alone(r) /\ DeleteListing_Delete(r)
  \/ \E r \in Turn, id \in ListingIdArgs : Alone(r) /\ ViewsRoom(MaxViews) /\ GetListing_Load(r, id)
  \/ \E r \in Turn : Alone(r) /\ GetListing_Update(r)
  \/ \E r \in Turn, q \in Queries : Alone(r) /\ GetListings_Count(r, q)
  \/ \E r \in Turn : Alone(r) /\ GetListings_Find(r)

SpecBrowseSeq == Init /\ [][NextBrowseSeq]_vars

\* Listings created and listed page by page, one request after the other.
NextPagingSeq ==
  \/ \E r \in Turn, u \in Sellers, input \in CreateInputs : Alone(r) /\ ListingRoom(MaxListings) /\ CreateListing_Bind(r, u, input)
  \/ \E r \in Turn : Alone(r) /\ CreateListing_Create(r)
  \/ \E r \in Turn : Alone(r) /\ CreateListing_Reload(r)
  \/ \E r \in Turn, q \in EdgeQueries : Alone(r) /\ GetListings_Count(r, q)
  \/ \E r \in Turn : Alone(r) /\ GetListings_Find(r)

SpecPagingSeq == Init /\ [][NextPagingSeq]_vars

\* Listings created and given a status, one request after the other.
NextStatusSeq ==
  \/ \E r \in Turn, u \in Sellers, input \in CreateInputs : Alone(r) /\ ListingRoom(MaxListings) /\ CreateListing_Bind(r, u, input)
  \/ \E r \in Turn : Alone(r) /\ CreateListing_Create(r)
  \/ \E r \in Turn : Alone(r) /\ CreateListing_Reload(r)
  \/ \E r \in Turn, u \in Users, id \in ListingIdArgs, input \in UpdateInputsAnyStatus : Alone(r) /\ UpdateListing_Load(r, u, id, input)
  \/ \E r \in Turn : Alone(r) /\ UpdateListing_Save(r)
  \/ \E r \in Turn : Alone(r) /\ UpdateListing_Reload(r)

SpecStatusSeq == Init /\ [][NextStatusSeq]_vars

\* Listings with their images: created, and updated by the seller, by
\* another user and by an admin, one request after the other.
NextImagesSeq ==
  \/ \E r \in Turn, u \in Sellers, input \in CreateInputsWithImages : Alone(r) /\ ListingRoom(MaxListings) /\ ImageRoom(MaxImages, input) /\ CreateListing_Bind(r, u, input)
  \/ \E r \in Turn : Alone(r) /\ CreateListing_Create(r)
  \/ \E r \in Turn : Alone(r) /\ CreateListing_Image(r)
  \/ \E r \in Turn : Alone(r) /\ CreateListing_Reload(r)
  \/ \E r \in Turn, u \in Users, id \in ListingIdArgs, input \in UpdateInputsWithImages : Alone(r) /\ ImageRoom(MaxImages, input) /\ UpdateListing_Load(r, u, id, input)
  \/ \E r \in Turn : Alone(r) /\ UpdateListing_Save(r)
  \/ \E r \in Turn : Alone(r) /\ UpdateListing_DeleteImages(r)
  \/ \E r \in Turn : Alone(r) /\ UpdateListing_Image(r)
  \/ \E r \in Turn : Alone(r) /\ UpdateListing_Reload(r)

SpecImagesSeq == Init /\ [][NextImagesSeq]_vars

\* GET and PUT /listings/:id served concurrently.
NextListing ==
  \/ \E r \in Pair, id \in ListingIdArgs : ViewsRoom(MaxViews) /\ GetListing_Load(r, id)
  \/ \E r \in Pair : GetListing_Update(r)
  \/ \E r \in Pair, u \in Users, id \in ListingIdArgs, input \in UpdateInputs : UpdateListing_Load(r, u, id, input)
  \/ \E r \in Pair : UpdateListing_Save(r)
  \/ \E r \in Pair : UpdateListing_Reload(r)

SpecListing == Init /\ [][NextListing]_vars

\* ======================================================================
\* Properties
\* ======================================================================
AllIdle == \A r \in Reqs : Idle(r)

\* The chat rows of the pair (listing lid, buyer b) in table t.
ChatRows(t, lid, b) == {i \in DOMAIN t : t[i].listing_id = lid /\ t[i].buyer_id = b}

\* The participant of chat other than u (the counterpart).
OtherParticipant(chat, u) == IF u = chat.buyer_id THEN chat.seller_id ELSE chat.buyer_id

\* No step deletes a chat row or a message row, or moves one to another pair
\* or chat.
RowsPersist ==
  /\ \A i \in DOMAIN chats :
       /\ i \in DOMAIN chats'
       /\ chats'[i].listing_id = chats[i].listing_id
       /\ chats'[i].buyer_id = chats[i].buyer_id
  /\ \A i \in DOMAIN messages :
       /\ i \in DOMAIN messages'
       /\ messages'[i].chat_id = messages[i].chat_id
       /\ messages'[i].sender_id = messages[i].sender_id
       /\ messages'[i].content = messages[i].content

\* Request r, a CreateChat of buyer loc[r].user on listing loc[r].arg, writes
\* its success response in this step.
CreateChatResponds(r) ==
  /\ pc[r] \in {"cc_bump", "cc_notify"}
  /\ pc'[r] = "idle"

\* C1 (chat dedup, requests served one after the other): every successful
\* CreateChat of buyer B on listing L returns the id of the one and only chat
\* row of (L, B), and the message it created is in that chat with B as sender
\* and the text sent; chat rows and message rows are never removed or moved.
\* Hence two successful calls by B on L return the same chat_id, and afterwards
\* one chat row of (L, B) holds both messages.
C1_ChatDedup ==
  [][ /\ RowsPersist
      /\ \A r \in Reqs : CreateChatResponds(r) =>
           /\ last'.status \in {StatusOK, StatusCreated}
           /\ ChatRows(chats', loc[r].arg, loc[r].user) = {last'.chat_id}
           /\ last'.msg \in DOMAIN messages'
           /\ messages'[last'.msg].chat_id = last'.chat_id
           /\ messages'[last'.msg].sender_id = loc[r].user
           /\ messages'[last'.msg].content = loc[r].text ]_vars

\* A second CreateChat of the same buyer on the same listing has just appended
\* to the existing chat: the chat holds two messages of the buyer with
\* different texts.
C1_Witness ==
  /\ last.op = "CreateChat"
  /\ last.status = StatusOK
  /\ \E m \in DOMAIN messages :
       /\ m # last.msg
       /\ messages[m].chat_id = last.chat_id
       /\ messages[m].sender_id = messages[last.msg].sender_id
       /\ messages[m].content # messages[last.msg].content
  /\ Cardinality(ChatRows(chats, chats[last.chat_id].listing_id, chats[last.chat_id].buyer_id)) = 1

\* C2: in every reachable state there is at most one chat row per
\* (listing_id, buyer_id) pair, also when CreateChat requests interleave.
C2_OneChatPerPair ==
  \A i, j \in DOMAIN chats :
    (chats[i].listing_id = chats[j].listing_id /\ chats[i].buyer_id = chats[j].buyer_id) => i = j

\* The notifications of chat c (Link "/chat/<c>") addressed to user u.
NotifsOf(c, u) == {n \in DOMAIN notifications : notifications[n].link = c /\ notifications[n].user_id = u}
\* The messages of chat c sent by user u.
MessagesBy(c, u) == {m \in DOMAIN messages : messages[m].chat_id = c /\ messages[m].sender_id = u}

\* C3: every successful CreateChat creates exactly one notification for the
\* listing's seller, in the new-chat branch and in the existing-chat branch.
\* A buyer's messages come from CreateChat and from SendMessage, and SendMessage
\* creates one notification for the seller per message of the buyer (C6), so:
\* whenever no request is in flight, every chat has as many notifications
\* addressed to its seller as it has messages of its buyer.
C3_SellerNotifiedPerCall ==
  AllIdle =>
    \A c \in DOMAIN chats :
      Cardinality(NotifsOf(c, chats[c].seller_id)) = Cardinality(MessagesBy(c, chats[c].buyer_id))

\* Request r, a GetChatMessages of loc[r].user on chat loc[r].arg, marks the
\* messages read and writes its response in this step.
GetChatMessagesResponds(r) ==
  /\ pc[r] = "gm_mark"
  /\ pc'[r] = "idle"

\* C4 (read-on-view): when participant P has fetched the messages of a chat,
\* every message of the chat by the other participant that was unread is read
\* with a non-null read timestamp, and is_read and read_at of every message
\* by P are as before.
C4_ReadOnView ==
  [][ \A r \in Reqs : GetChatMessagesResponds(r) =>
        /\ last'.status = StatusOK
        /\ \A i \in DOMAIN messages :
             /\ ( /\ messages[i].chat_id = loc[r].arg
                  /\ messages[i].sender_id = OtherParticipant(chats[loc[r].arg], loc[r].user)
                  /\ ~messages[i].is_read )
                => (messages'[i].is_read /\ messages'[i].read_at # Null)
             /\ messages[i].sender_id = loc[r].user
                => /\ messages'[i].is_read = messages[i].is_read
                   /\ messages'[i].read_at = messages[i].read_at ]_vars

\* A participant has just fetched a chat in which a message of the other
\* participant is now read, with its timestamp, and a message of their own
\* is still unread.
C4_Witness ==
  /\ last.op = "GetChatMessages"
  /\ last.status = StatusOK
  /\ \E i, j \in DOMAIN messages :
       /\ last.list # <<>>
       /\ messages[i].chat_id = messages[j].chat_id
       /\ messages[i].sender_id # messages[j].sender_id
       /\ messages[i].is_read /\ messages[i].read_at # Null
       /\ ~messages[j].is_read /\ messages[j].read_at = Null
       /\ i \in {last.list[k] : k \in DOMAIN last.list}
       /\ j \in {last.list[k] : k \in DOMAIN last.list}

\* The unread messages of chat c written by the other participant than u.
UnreadFromOther(c, u) ==
  {i \in DOMAIN messages :
     /\ messages[i].chat_id = c
     /\ messages[i].sender_id = OtherParticipant(chats[c], u)
     /\ ~messages[i].is_read}

\* Request r, a GetChats of loc[r].user, writes its response in this step.
GetChatsResponds(r) ==
  /\ pc[r] = "gc_each"
  /\ pc'[r] = "idle"

\* C5: GetChats returns the caller's chats, each once, and the unread_count of
\* each is the number of unread messages of that chat written by the other
\* participant (1 after the buyer's first message, 0 once the seller has
\* fetched the chat's messages).
C5_UnreadCount ==
  [][ \A r \in Reqs : GetChatsResponds(r) =>
        /\ last'.status = StatusOK
        /\ {last'.list[k].id : k \in DOMAIN last'.list}
             = {c \in DOMAIN chats : loc[r].user \in {chats[c].buyer_id, chats[c].seller_id}}
        /\ Len(last'.list) = Cardinality({last'.list[k].id : k \in DOMAIN last'.list})
        /\ \A k \in DOMAIN last'.list :
             last'.list[k].unread_count
               = Cardinality(UnreadFromOther(last'.list[k].id, loc[r].user)) ]_vars

\* GetChats has just reported unread_count 0 for a chat whose messages from
\* the other participant were read, and unread_count 1 for another chat.
C5_Witness ==
  /\ last.op = "GetChats"
  /\ \E k, l \in DOMAIN last.list :
       /\ last.list[k].unread_count = 0
       /\ \E i \in DOMAIN messages :
            messages[i].chat_id = last.list[k].id /\ messages[i].is_read
       /\ last.list[l].unread_count = 1

\* C6: a SendMessage of participant S appends exactly one message, with sender
\* S, to the chat, and creates exactly one notification, addressed to the
\* other participant and never to S.
C6_SendMessage ==
  [][ \A r \in Reqs :
        /\ pc[r] = "sm_create" /\ pc'[r] # pc[r] =>
             /\ \E m \in [chat_id : {loc[r].arg}, sender_id : {loc[r].user},
                          content : {loc[r].text}, is_read : {FALSE}, read_at : {Null},
                          created_at : {clock}] : messages' = Append(messages, m)
             /\ notifications' = notifications
        /\ pc[r] = "sm_bump" /\ pc'[r] # pc[r] =>
             messages' = messages /\ notifications' = notifications
        /\ pc[r] = "sm_notify" /\ pc'[r] # pc[r] =>
             /\ messages' = messages
             /\ Len(notifications') = Len(notifications) + 1
             /\ SubSeq(notifications', 1, Len(notifications)) = notifications
             /\ notifications'[Len(notifications')].user_id
                  = OtherParticipant(chats[loc[r].arg], loc[r].user)
             /\ notifications'[Len(notifications')].user_id # loc[r].user
             /\ notifications'[Len(notifications')].link = loc[r].arg
        /\ pc[r] = "sm_reload" /\ pc'[r] # pc[r] =>
             /\ messages' = messages /\ notifications' = notifications
             /\ last'.status = StatusCreated
             /\ last'.msg \in DOMAIN messages
             /\ messages[last'.msg].sender_id = loc[r].user
             /\ messages[last'.msg].chat_id = loc[r].arg ]_vars

\* The seller has just replied in a chat and the newest notification is
\* addressed to the buyer.
C6_Witness ==
  /\ last.op = "SendMessage"
  /\ last.status = StatusCreated
  /\ messages[last.msg].sender_id = chats[last.chat_id].seller_id
  /\ notifications # <<>>
  /\ notifications[Len(notifications)].user_id = chats[last.chat_id].buyer_id
  /\ notifications[Len(notifications)].link = last.chat_id

\* u is the buyer or the seller of the chat.
IsParticipant(chat, u) == u = chat.buyer_id \/ u = chat.seller_id

C8_SelfChatRejected ==
  [][ \A r \in Reqs, u \in Users, lid \in DOMAIN listings, t \in Texts :
        ( /\ listings[lid].seller_id = u
          /\ pc[r] = "idle"
          /\ (last'.op = "CreateChat" \/ pc'[r] # "idle")
          /\ CreateChat_Load(r, u, lid, t) )
        => /\ last'.op = "CreateChat"
           /\ last'.status = StatusBadRequest
           /\ UNCHANGED db
           /\ pc'[r] = "idle" ]_vars

\* A CreateChat has just been refused with 400, and no chat has its seller
\* as buyer.
C8_Witness ==
  /\ last.op = "CreateChat"
  /\ last.status = StatusBadRequest
  /\ chats # <<>>
  /\ \A c \in DOMAIN chats : chats[c].buyer_id # chats[c].seller_id

\* The unread notifications of user u, as stored.
UnreadOf(t, u) == {i \in DOMAIN t : ~t[i].deleted /\ t[i].user_id = u /\ ~t[i].is_read}

\* C9: marking one of u's unread notifications read lowers u's unread count
\* by exactly one (so N unread and M of them marked leave N - M, never below
\* 0), GetUnreadCount returns the number of u's unread notifications, and
\* after MarkAllNotificationsRead u's unread count is 0.
C9_UnreadLedger ==
  [][ /\ \A r \in Reqs :
           ( /\ pc[r] = "mr_update" /\ pc'[r] = "idle"
             /\ loc[r].arg \in UnreadOf(notifications, loc[r].user) )
           => /\ last'.status = StatusOK
              /\ UnreadOf(notifications', loc[r].user)
                   = UnreadOf(notifications, loc[r].user) \ {loc[r].arg}
      /\ \A r \in Reqs, u \in Users :
           /\ (last'.op = "GetUnreadCount" /\ GetUnreadCount(r, u)) =>
                /\ last'.count = Cardinality(UnreadOf(notifications, u))
                /\ last'.count >= 0
           /\ (last'.op = "MarkAllNotificationsRead" /\ MarkAllNotificationsRead(r, u)) =>
                /\ last'.status = StatusOK
                /\ UnreadOf(notifications', u) = {} ]_vars

\* GetUnreadCount has just returned 1 to a user who had two unread
\* notifications and marked one of them read.
C9_Witness ==
  /\ last.op = "GetUnreadCount"
  /\ last.count = 1
  /\ \E u \in Users, i, j \in DOMAIN notifications :
       /\ notifications[i].user_id = u /\ notifications[j].user_id = u
       /\ notifications[i].is_read /\ ~notifications[i].deleted
       /\ ~notifications[j].is_read /\ ~notifications[j].deleted
       /\ Cardinality(UnreadOf(notifications, u)) = 1
       /\ \A v \in Users \ {u} : Cardinality(UnreadOf(notifications, v)) # 1

\* C10: MarkNotificationRead on a notification that is already read succeeds
\* and is a no-op: is_read and read_at stay as the first call left them.
C10_MarkReadIdempotent ==
  [][ \A r \in Reqs :
        ( /\ pc[r] = "mr_update" /\ pc'[r] = "idle"
          /\ Live(loc[r].arg)
          /\ notifications[loc[r].arg].is_read )
        => /\ last'.status = StatusOK
           /\ notifications'[loc[r].arg].is_read = notifications[loc[r].arg].is_read
           /\ notifications'[loc[r].arg].read_at = notifications[loc[r].arg].read_at ]_vars

Views(t) == [i \in DOMAIN t |-> t[i].views]

\* Request r completes a successful GetListing in this step.
GetListingResponds(r) == pc[r] = "gl_update" /\ pc'[r] = "idle"

\* C12 (view count, requests served in turn): a successful GetListing answers
\* 200 and raises the stored view count of its listing by exactly one and no
\* other count; a GetListing refused with 400 or 404, and every other step,
\* leaves every stored view count as it is.  So N fetches of a listing, one
\* after the other, raise its count by exactly N.
C12_ViewCountSequential ==
  [][ /\ \A r \in Reqs :
           GetListingResponds(r) =>
              /\ last'.status = StatusOK
              /\ Views(listings') =
                   [Views(listings) EXCEPT ![loc[r].arg] = listings[loc[r].arg].views + 1]
      /\ (\A r \in Reqs : ~GetListingResponds(r)) =>
           \A i \in DOMAIN listings : listings'[i].views = listings[i].views
      /\ (last'.op = "GetListing" /\ last'.status # StatusOK) =>
           /\ last'.status \in {StatusBadRequest, StatusNotFound}
           /\ UNCHANGED db ]_vars

\* A second GetListing of the same listing has just answered 200 and the
\* stored count is 2.
C12_Witness ==
  /\ last.op = "GetListing"
  /\ last.status = StatusOK
  /\ listings[last.listing].views = 2

\* C13 (view count, requests interleaved): no increment is lost, that is,
\* every GetListing that completes leaves the stored view count of its listing
\* one higher than it was just before, whatever other GetListing requests did
\* since this one loaded the listing; N completed fetches then add up to N.
C13_NoLostIncrement ==
  [][ \A r \in Reqs :
        (GetListingResponds(r) /\ FindListing(loc[r].arg) # Null) =>
           listings'[loc[r].arg].views = listings[loc[r].arg].views + 1 ]_vars

\* Request r completes a GetListings in this step.
GetListingsResponds(r) == pc[r] = "gls_find" /\ pc'[r] = "idle"

\* The elements of sequence f.
Range(f) == {f[i] : i \in DOMAIN f}

\* C14: whatever the query, every listing GetListings returns is stored with
\* status active (and is not deleted), so a listing set to sold or inactive is
\* in no list result; and GetListing of a stored listing answers 200 with that
\* listing whatever its status.
C14_OnlyActiveListed ==
  [][ /\ \A r \in Reqs :
           GetListingsResponds(r) =>
              \A i \in Range(last'.list) :
                 /\ i \in DOMAIN listings
                 /\ listings[i].status = StatusActive
                 /\ ~listings[i].deleted
      /\ \A r \in Reqs, id \in DOMAIN listings :
           ( /\ ~listings[id].deleted
             /\ pc[r] = "idle"
             /\ last'.op = "GetListing" \/ pc'[r] # "idle"
             /\ GetListing_Load(r, id) )
           => pc'[r] = "gl_update"
      /\ \A r \in Reqs :
           GetListingResponds(r) =>
              last'.status = StatusOK /\ last'.listing = loc[r].arg ]_vars

\* GetListings has just returned one listing while a sold listing that agrees
\* with it in every column the filters look at is stored.
C14_Witness ==
  /\ last.op = "GetListings"
  /\ last.status = StatusOK
  /\ Len(last.list) = 1
  /\ \E j \in DOMAIN listings :
       LET i == last.list[1] IN
         /\ j # i
         /\ ~listings[j].deleted
         /\ listings[j].status = StatusSold
         /\ listings[j].title = listings[i].title
         /\ listings[j].description = listings[i].description
         /\ listings[j].price = listings[i].price
         /\ listings[j].category_id = listings[i].category_id
         /\ listings[j].condition = listings[i].condition

\* C15 (pagination law): a GetListings with a sortable column answers 200
\* with total the number of listings the filters match and pages the ceiling
\* of total / limit; page p of 1..pages holds limit listings, the last page
\* the remainder (so the page sizes add up to total), each listed once and
\* each matching the filters; a page beyond pages is empty, with the same
\* total and pages.
C15_PaginationLaw ==
  [][ \A r \in Reqs :
        (GetListingsResponds(r) /\ loc[r].input.sort \in SortColumns) =>
          LET q     == loc[r].input
              total == last'.count
              pages == last'.pages
              items == last'.list
          IN  /\ last'.status = StatusOK
              /\ total = Cardinality({i \in DOMAIN listings :
                             /\ ~listings[i].deleted
                             /\ listings[i].status = StatusActive
                             /\ FilterMatches(listings[i], q)})
              /\ pages * q.limit >= total
              /\ (pages - 1) * q.limit < total
              /\ q.page > pages => items = <<>>
              /\ q.page \in 1..pages =>
                    Len(items) = IF q.page < pages THEN q.limit
                                 ELSE total - (pages - 1) * q.limit
              /\ \A i, j \in DOMAIN items : i # j => items[i] # items[j]
              /\ \A i \in DOMAIN items : FilterMatches(listings[items[i]], q) ]_vars

\* The image rows of listing id in table t, in primary key order.
ImageList(t, id) ==
  CHOOSE f \in Perms(ImagesOf(t, id)) : \A i \in 1..(Len(f) - 1) : f[i] < f[i + 1]

\* The image rows of listing id in table t are the urls of list, in that
\* order, the first flagged primary and no other.
ImagesAre(t, id, list) ==
  LET f == ImageList(t, id) IN
    /\ Len(f) = Len(list)
    /\ \A i \in DOMAIN f : t[f[i]].image_url = list[i] /\ (t[f[i]].is_primary <=> i = 1)

\* C16 (primary image): whenever no request is in flight, a listing with
\* images has exactly one primary image, its first; a completed CreateListing
\* leaves the listing with exactly the images of its input, and a completed
\* UpdateListing that supplies images (a list that is not empty) leaves the
\* listing with exactly those, the first primary in both cases; an
\* UpdateListing that supplies none leaves the images as they are.
C16_PrimaryImage ==
  /\ [](AllIdle =>
         \A id \in DOMAIN listings :
            LET f == ImageList(images, id) IN
              /\ Cardinality({i \in ImagesOf(images, id) : images[i].is_primary})
                   = IF f = <<>> THEN 0 ELSE 1
              /\ f # <<>> => images[f[1]].is_primary)
  /\ [][ \A r \in Reqs :
           /\ (pc[r] = "cl_image" /\ pc'[r] = "idle") =>
                ImagesAre(images', loc[r].arg, loc[r].input.images)
           /\ (pc[r] = "ul_reload" /\ pc'[r] = "idle" /\ loc[r].input.images # <<>>) =>
                ImagesAre(images', loc[r].arg, loc[r].input.images)
           /\ (loc[r].op = "UpdateListing" /\ pc[r] # "idle" /\ loc[r].input.images = <<>>) =>
                images' = images ]_vars

\* An UpdateListing has just replaced the images of a listing by two others.
C16_Witness ==
  /\ last.op = "UpdateListing"
  /\ last.status = StatusOK
  /\ Cardinality(ImagesOf(images, last.listing)) = 2
  /\ \E i \in DOMAIN images : images[i].listing_id = last.listing /\ images[i].deleted
  /\ images[ImageList(images, last.listing)[1]].image_url = "y"

\* C17: UpdateListing by a caller who is not the seller of the listing, an
\* admin included, answers Forbidden, changes no table (neither the listing
\* nor its images) and ends the request; and no step changes the seller of a
\* stored listing.
C17_UpdateOnlyBySeller ==
  [][ /\ \A r \in Reqs :
           (pc[r] = "idle" /\ (last'.op = "UpdateListing" \/ pc'[r] = "ul_save")) =>
              \A u \in Users, id \in DOMAIN listings :
                 ( /\ ~listings[id].deleted /\ listings[id].seller_id # u
                   /\ \E input \in UpdateInputsWithImages : UpdateListing_Load(r, u, id, input) )
                 => /\ last'.status = StatusForbidden
                    /\ UNCHANGED db
                    /\ pc'[r] = "idle"
      /\ \A id \in DOMAIN listings : listings'[id].seller_id = listings[id].seller_id ]_vars

\* An UpdateListing has just been refused while every listing has images and
\* a title no update has touched.
C17_Witness ==
  /\ last.op = "UpdateListing"
  /\ last.status = StatusForbidden
  /\ \A id \in DOMAIN listings :
       /\ ImagesOf(images, id) # {}
       /\ listings[id].title = <<"a">>

Registered(e) == \E i \in DOMAIN users : ToLower(users[i].email) = ToLower(e)

\* C19: a Register whose input binds and whose email equals the email of a
\* stored user up to letter case answers Conflict (409) and creates no user.
C19_DuplicateEmailConflict ==
  [][ ( /\ last'.op = "Register"
        /\ RegisterBinds(last'.request)
        /\ IsUFEmail(last'.request.email)
        /\ Registered(last'.request.email) )
      => /\ last'.status = StatusConflict
         /\ users' = users ]_vars

\* A response without the request it answers.
Body(response) == [response EXCEPT !.request = Null]

\* C20: a Login with a registered email and a password that is not that
\* user's, and a Login with an email that is not registered, get one and the
\* same response: status 401, the same error message, nothing else.
C20_LoginIndistinguishable ==
  [][ ( /\ last'.op = "Login"
        /\ LoginBinds(last'.request)
        /\ \/ ~Registered(last'.request.email)
           \/ \E i \in DOMAIN users :
                /\ users[i].email = ToLower(last'.request.email)
                /\ users[i].password # HashPassword(last'.request.password) )
      => Body(last') = [NoResp EXCEPT !.op = "Login", !.status = StatusUnauthorized,
                          !.error = "Invalid email or password. Please try again."] ]_vars

\* A login with the email of a user registered after start-up, written in
\* capitals, and a wrong password has just been refused.
C20_Witness ==
  /\ last.op = "Login"
  /\ last.status = StatusUnauthorized
  /\ last.request.email.name = <<"D">>
  /\ \E i \in DOMAIN users :
       /\ users[i].email = ToLower(last.request.email)
       /\ users[i].password # HashPassword(last.request.password)

\* ---- the password change ---------------------------------------------------
\* What a login of user u with password p is answered in the current state.
LoginOf(u, p) == LoginAnswer([email |-> users[u].email, password |-> p])

\* The passwords user u logs in with.
Opens(u) == {p \in {"secret1", "secret2", "wrong"} : LoginOf(u, p).status = StatusOK}

\* ChangePassword with a current password that does not match the stored hash
\* is refused with "Current password is incorrect", changes no table and ends
\* the request, and the login with the old password still succeeds; a change
\* that completes was asked with the matching current password, and the login
\* with the new password succeeds after it; no other step changes what a user
\* logs in with.
PasswordChangeGuarded ==
  /\ \A r \in Reqs :
        (pc[r] = "idle" /\ (last'.op = "ChangePassword" \/ pc'[r] = "cp_save")) =>
           \A u \in Users, input \in ChangePasswordInputs :
              ( /\ ChangePasswordBinds(input)
                /\ ~CheckPassword(input.current_password, users[u].password)
                /\ ChangePassword_Load(r, u, input) )
              => /\ last'.status = StatusBadRequest
                 /\ last'.error = "Current password is incorrect"
                 /\ UNCHANGED db
                 /\ pc'[r] = "idle"
                 /\ Opens(u)' = Opens(u) /\ Opens(u) # {}
  /\ \A r \in Reqs :
        (pc[r] = "cp_save" /\ pc'[r] = "idle") =>
           /\ last'.status = StatusOK
           /\ CheckPassword(loc[r].input.current_password, users[loc[r].user].password)
           /\ \A u \in Users :
                u = loc[r].user => loc[r].input.new_password \in Opens(u)'
  /\ (\A r \in Reqs : pc[r] # "cp_save") => \A u \in Users : Opens(u)' = Opens(u)

\* C21 as stated: besides the above, after a completed change the login with
\* the old password fails.
C21_ChangePassword_AsStated ==
  [][ /\ PasswordChangeGuarded
      /\ \A r \in Reqs :
            (pc[r] = "cp_save" /\ pc'[r] = "idle") =>
               \A u \in Users :
                  u = loc[r].user => loc[r].input.current_password \notin Opens(u)' ]_vars

\* C21: ChangePassword accepts the new password only if the supplied current
\* password matches the stored hash, otherwise it is refused ("Current
\* password is incorrect") and the stored credential is unchanged: the login
\* with the old password still succeeds.  After a completed change the login
\* succeeds with the new password and with no other, so it fails with the old
\* one whenever the new password differs from it.
C21_ChangePassword ==
  [][ /\ PasswordChangeGuarded
      /\ \A r \in Reqs :
            (pc[r] = "cp_save" /\ pc'[r] = "idle") =>
               \A u \in Users :
                  u = loc[r].user => Opens(u)' = {loc[r].input.new_password} ]_vars

\* User 1 has just changed the password from secret1 to secret2 and now logs
\* in with secret2 alone.
C21_Witness ==
  /\ last.op = "ChangePassword"
  /\ last.status = StatusOK
  /\ last.user = 1
  /\ last.request = [current_password |-> "secret1", new_password |-> "secret2"]
  /\ Opens(1) = {"secret2"}
\* C22 (at most one duplicate): whatever the number of CreateChat requests of
\* one buyer on one listing that are in flight together, the chats table
\* never holds more than two rows for that pair (listing_id, buyer_id).
C22_AtMostOneDuplicate ==
  \A lid \in DOMAIN listings, b \in Users : Cardinality(ChatRows(chats, lid, b)) <= 2

\* C23 (read-on-view is atomic): when GetChatMessages of a participant marks
\* the messages read, also with a SendMessage or a CreateChat of the other
\* participant in flight on the same chat, every message it marks read is in
\* the list it returns, and every message of the other participant in that
\* list is read afterwards.
C23_ReadOnViewAtomic ==
  [][ \A r \in Reqs :
        (pc[r] = "gm_mark" /\ pc'[r] = "idle") =>
           /\ \A i \in DOMAIN messages :
                (~messages[i].is_read /\ messages'[i].is_read) => i \in Range(loc[r].list)
           /\ \A i \in Range(loc[r].list) :
                messages[i].sender_id # loc[r].user => messages'[i].is_read ]_vars

\* C24 (view counter monotonic): no step of any request lowers the stored
\* view count of a listing, whatever the interleaving of GetListing and
\* UpdateListing requests on it.
C24_ViewsMonotonic ==
  [][ \A i \in DOMAIN listings : listings'[i].views >= listings[i].views ]_vars

\* C25 (status domain): in every reachable state the status of every stored
\* listing is active, sold or inactive, whatever status string the
\* UpdateListing requests carry.
C25_StatusDomain ==
  \A i \in DOMAIN listings : listings[i].status \in {StatusActive, StatusSold, StatusInactive}

\* C26 (is_read lifecycle): a message is stored unread; its is_read flag only
\* ever changes from false to true, and only in the marking step of a
\* GetChatMessages on its chat by a participant of the chat who is not its
\* sender; no step of any other request, and no step by the sender or by a
\* non-participant, changes the flag.
C26_ReadOnlyByOtherParticipant ==
  [][ /\ \A i \in DOMAIN messages' \ DOMAIN messages : ~messages'[i].is_read
      /\ \A i \in DOMAIN messages :
           messages'[i].is_read # messages[i].is_read =>
              /\ ~messages[i].is_read
              /\ \E r \in Reqs :
                   /\ pc[r] = "gm_mark" /\ pc'[r] = "idle"
                   /\ loc[r].op = "GetChatMessages"
                   /\ loc[r].arg = messages[i].chat_id
                   /\ loc[r].user # messages[i].sender_id
                   /\ loc[r].user \in {chats[loc[r].arg].buyer_id, chats[loc[r].arg].seller_id} ]_vars

\* A GetChatMessages has just answered with two messages of one chat, one of
\* them read and the other, sent by the caller's counterpart later or by the
\* caller, still unread.
C26_Witness ==
  /\ last.op = "GetChatMessages"
  /\ last.status = StatusOK
  /\ Len(last.list) = 2
  /\ \E i, j \in Range(last.list) : messages[i].is_read /\ ~messages[j].is_read

\* The created_at of the latest message of chat c, 0 when it has none.
LatestMessageAt(c) ==
  LET S == {messages[i].created_at : i \in {j \in DOMAIN messages : messages[j].chat_id = c}}
  IN  IF S = {} THEN 0 ELSE CHOOSE t \in S : \A x \in S : x <= t

\* C27 (newest activity first): when GetChats is served with no other request
\* in flight, also after requests that ran concurrently sent messages to
\* different chats, no chat in the list it loads comes after a chat whose
\* latest message is older than its own.  Chats with the same updated_at come
\* in either order, so only chats whose updated_at differ are compared.
C27_NewestActivityFirst ==
  [][ \A r \in Reqs :
        (Alone(r) /\ pc[r] = "idle" /\ pc'[r] = "gc_each") =>
           LET f == loc'[r].list IN
             \A i, j \in DOMAIN f :
                (i < j /\ chats[f[i]].updated_at # chats[f[j]].updated_at) =>
                   LatestMessageAt(f[i]) >= LatestMessageAt(f[j]) ]_vars

\* C28 (the widget shows the active chat): whenever a chat is active in the
\* widget and every response has arrived, every message ChatService.messages
\* holds belongs to that chat, whatever the order in which openChat and
\* sendMessage were asked and answered.
C28_MessagesOfActiveChat ==
  (activeChat # Null /\ \A s \in Slots : NoRequest(s)) =>
     \A k \in DOMAIN svcMessages : messages[svcMessages[k]].chat_id = activeChat

\* C29 (unread badge): once the list and the count were loaded from the same
\* store, after any sequence of successful markAsRead, markAllAsRead and
\* deleteNotification calls unreadCount is the number of entries of the list
\* held that are not read.
C29_BadgeCountsUnread ==
  unreadCount = Cardinality({k \in DOMAIN svcNotifications : ~svcNotifications[k].is_read})

\* C30 (page and limit arithmetic): for every page and limit the client
\* sends, zero and negative ones included, the offset (page - 1) * limit that
\* GetListings computes is not negative and the request is answered 200: the
\* page count is never a division by zero.
C30_PagingWellDefined ==
  [][ \A r \in Reqs :
        (pc[r] = "gls_find" /\ pc'[r] = "idle") =>
           /\ Offset(loc[r].input.page, loc[r].input.limit) >= 0
           /\ last'.status = StatusOK ]_vars
====
